---- MODULE Spec2Model ----
(***************************************************************************)
(* A model of the decision pipeline of the Doom Blocker backend            *)
(* (src/topaz-backend-main/main.py): the circuit breaker, the rate         *)
(* limiter, the multi-tier cache, the response sanitizer, the rule-based   *)
(* filters, the fallback cascade and the handler fetch_distracting_chunks. *)
(*                                                                         *)
(* Text is a sequence of one-character strings, so that lower-casing,      *)
(* substring search, the id regex, join and split are computed and not     *)
(* assumed.                                                                *)
(***************************************************************************)
EXTENDS Integers, Sequences, FiniteSets, TLC

VARIABLES
    now,        \* time.time(), in seconds
    cb,         \* openai_circuit_breaker: the fields of CircuitBreaker
    cbobs,      \* observation of the last CircuitBreaker.call
    streak,     \* consecutive failed operations since CLOSED with failure_count 0
    fin,        \* the arguments a function under test is applied to
    fout,       \* its result
    fphase,     \* "input" before the application, "done" after it
    hist,       \* what a specification keeps of the operations so far
    rl,         \* rate_limit_data
    cache,      \* api_cache
    configured, \* whether OPENAI_HEADERS is set
    pc,         \* per handler task: where fetch_distracting_chunks stands
    preq,       \* per handler task: its request
    pctx,       \* per handler task: its locals across the awaits
    started,    \* the number of calls of fetch_distracting_chunks so far
    last,       \* the call of fetch_distracting_chunks that ended last
    prev        \* the one that ended before it

cbvars == <<cb, cbobs, streak>>
fvars == <<fin, fout, fphase, hist>>
pipevars == <<rl, cache, configured, pc, preq, pctx, started, last, prev>>
vars == <<now, cb, cbobs, streak, fin, fout, fphase, hist,
          rl, cache, configured, pc, preq, pctx, started, last, prev>>

\* the request pipeline takes no part in a specification of one function
PipeUnused ==
    /\ rl = <<>>
    /\ cache = <<>>
    /\ configured = FALSE
    /\ pc = <<>>
    /\ preq = <<>>
    /\ pctx = <<>>
    /\ started = 0
    /\ last = <<>>
    /\ prev = <<>>

(***************************************************************************)
(* Bounds of the model.                                                    *)
(***************************************************************************)
\* CircuitBreaker.call is made at most this many times in SpecCB
MaxCBCalls == 6
\* the clock of SpecCB advances in steps of this many seconds
CBTickStep == 15
\* the clock of SpecCB stops here
CBMaxTime == 60
\* a model response given to the sanitizer is made of at most this many pieces
MaxPieces == 3
\* a child text given to the rule-based filter has at most this many characters
MaxRuleText == 2
\* track_ip_request is called at most this many times in SpecRL
MaxAdmits == 3
\* the clock of SpecRL advances in steps of this many seconds and stops
RLTickStep == 1200
RLMaxTime == 4800
\* the cache is put to and read at most this many times in SpecCache
MaxCacheOps == 5
\* the clock of SpecCache advances in steps of this many seconds and stops
CacheTickStep == 900
CacheMaxTime == 2700
\* the full cache is put to and read at most this many times in SpecCap
MaxCapOps == 2
\* the calls of the concurrent tasks, and the clock of their specification
MaxConcCalls == 4
ConcTickStep == 1800
ConcMaxTime == 3600
\* the calls of the concurrent tasks that share the cache, and their clock
MaxTierCalls == 4
TierTickStep == 1800
TierMaxTime == 3600
\* the calls of fetch_distracting_chunks where their ending is examined
MaxLiveDecides == 1
\* the first request given to get_cache_key has a whitelist of at least this
\* many terms
MinKeyTerms == 2
\* the clock of SpecCap advances in steps of this many seconds and stops
CapTickStep == 900
CapMaxTime == 2700
\* fetch_distracting_chunks is called at most this many times in SpecPipe
MaxDecides == 2
\* the clock of SpecPipe advances in steps of this many seconds and stops
PipeTickStep == 900
PipeMaxTime == 1800

(***************************************************************************)
(* Program constants.                                                      *)
(***************************************************************************)
\* openai_circuit_breaker = CircuitBreaker(failure_threshold=3, reset_timeout=30)
failure_threshold == 3
reset_timeout == 30
\* self.last_failure_time = None
NoTime == -1
\* reset_rate_limit_if_needed: >= 3600
rate_window == 3600
\* fetch_distracting_chunks: request_count > 3000
rate_limit == 3000
\* api_cache['max_size'], api_cache['max_age']
max_size == 1000
max_age == 1800
\* get_cached_response: access_counts[cache_key] > 5
promote_hot_above == 5
\* cache_response: access_count >= 10, access_count >= 3
hot_from == 10
warm_from == 3
\* cleanup_cache_if_needed: evict_from_tier(..., 20), (..., 15), (..., 10)
evict_cold == 20
evict_warm == 15
evict_hot == 10
\* clean_grid_structure_for_llm: max_children = 10, len(text) > 50
max_children == 10
max_text == 50

(***************************************************************************)
(* CircuitBreaker                                                          *)
(***************************************************************************)
BreakerStates == {"CLOSED", "OPEN", "HALF_OPEN"}

\* CircuitBreaker.__init__
CircuitBreakerInit ==
    [ state             |-> "CLOSED",
      failure_count     |-> 0,
      last_failure_time |-> NoTime,
      total_requests    |-> 0,
      total_failures    |-> 0,
      state_changes     |-> [s \in BreakerStates |-> 0] ]

_change_state_fresh(b, new_state) ==
    IF new_state # b.state
    THEN [b EXCEPT !.state_changes[new_state] = @ + 1, !.state = new_state,
                   !.failure_count = IF new_state = "HALF_OPEN" THEN 0 ELSE @]
    ELSE b
\* CircuitBreaker._change_state
_change_state(b, new_state) ==
    IF new_state # b.state
    THEN [b EXCEPT !.state_changes[new_state] = @ + 1, !.state = new_state]
    ELSE b

ResetElapsed_strict(b, t) == t - b.last_failure_time > reset_timeout
\* call: time.time() - self.last_failure_time >= self.reset_timeout
ResetElapsed(b, t) == t - b.last_failure_time >= reset_timeout

ThresholdReached_late(b) == b.failure_count > failure_threshold
\* call: self.failure_count >= self.failure_threshold
ThresholdReached(b) == b.failure_count >= failure_threshold

CallAdmit_admittedOnly(b, t) ==
    IF b.state = "OPEN"
    THEN IF ResetElapsed(b, t)
         THEN [cb |-> _change_state([b EXCEPT !.total_requests = @ + 1], "HALF_OPEN"),
               refused |-> FALSE]
         ELSE [cb |-> b, refused |-> TRUE]
    ELSE [cb |-> [b EXCEPT !.total_requests = @ + 1], refused |-> FALSE]
\* call, the OPEN check: the breaker when the operation is about to be invoked;
\* refused is TRUE when "Circuit breaker is OPEN" is raised instead
CallAdmit(b, t) ==
    LET counted == [b EXCEPT !.total_requests = @ + 1] IN
    IF counted.state = "OPEN"
    THEN IF ResetElapsed(counted, t)
         THEN [cb |-> _change_state(counted, "HALF_OPEN"), refused |-> FALSE]
         ELSE [cb |-> counted, refused |-> TRUE]
    ELSE [cb |-> counted, refused |-> FALSE]

CallSuccess_keepCount(b) ==
    IF b.state = "HALF_OPEN" THEN _change_state(b, "CLOSED") ELSE b
\* call, the try branch: func returned
CallSuccess(b) ==
    IF b.state = "HALF_OPEN"
    THEN [_change_state(b, "CLOSED") EXCEPT !.failure_count = 0]
    ELSE b

CallFailure_noStamp(b, t) ==
    LET counted == [b EXCEPT !.failure_count = @ + 1,
                             !.total_failures = @ + 1] IN
    IF ThresholdReached(counted) THEN _change_state(counted, "OPEN") ELSE counted
\* call, the except branch: func raised at time t
CallFailure(b, t) ==
    LET counted == [b EXCEPT !.failure_count = @ + 1,
                             !.total_failures = @ + 1,
                             !.last_failure_time = t] IN
    IF ThresholdReached(counted) THEN _change_state(counted, "OPEN") ELSE counted

\* CircuitBreaker.call(func) at time t, where func raises iff funcRaises:
\* the breaker afterwards, how the call ended, how often func was invoked and
\* the breaker state func was invoked in
call(b, funcRaises, t) ==
    LET adm == CallAdmit(b, t) IN
    IF adm.refused
    THEN [cb |-> adm.cb, outcome |-> "refused", invoked |-> 0, state_at_invoke |-> "none"]
    ELSE [cb |-> IF funcRaises THEN CallFailure(adm.cb, t) ELSE CallSuccess(adm.cb),
          outcome |-> IF funcRaises THEN "raised" ELSE "returned",
          invoked |-> 1,
          state_at_invoke |-> adm.cb.state]

\* what is recorded of a call: the breaker before it and the result of call
Observe(b, r, t) ==
    [ pre_state       |-> b.state,
      pre_count       |-> b.failure_count,
      pre_failures    |-> b.total_failures,
      pre_elapsed     |-> IF b.last_failure_time = NoTime THEN NoTime
                          ELSE t - b.last_failure_time,
      at              |-> t,
      outcome         |-> r.outcome,
      invoked         |-> r.invoked,
      state_at_invoke |-> r.state_at_invoke ]

NoObservation ==
    [ pre_state |-> "none", pre_count |-> 0, pre_failures |-> 0, pre_elapsed |-> NoTime,
      at |-> 0, outcome |-> "none", invoked |-> 0, state_at_invoke |-> "none" ]

\* the number of consecutive failed operations since the breaker was CLOSED
\* with failure_count 0; -1 when the calls so far are no such run
NextStreak(s, r) ==
    IF r.cb.state = "CLOSED" /\ r.cb.failure_count = 0 THEN 0
    ELSE IF r.outcome = "raised" /\ s >= 0 /\ s < failure_threshold THEN s + 1
    ELSE -1

(***************************************************************************)
(* Text: sequences of one-character strings.                               *)
(***************************************************************************)
Digits == {"0", "1", "2", "3", "4", "5", "6", "7", "8", "9"}

\* \d of the regular expression
IsDigit(ch) == ch \in Digits

\* str.strip() and str.split() whitespace
IsSpace(ch) == ch \in {" ", "\n", "\t"}

RECURSIVE StripLeft(_)
StripLeft(t) ==
    IF Len(t) > 0 /\ IsSpace(t[1]) THEN StripLeft(Tail(t)) ELSE t

RECURSIVE StripRight(_)
StripRight(t) ==
    IF Len(t) > 0 /\ IsSpace(t[Len(t)]) THEN StripRight(SubSeq(t, 1, Len(t) - 1)) ELSE t

\* str.strip()
Strip(t) == StripRight(StripLeft(t))

RECURSIVE Join(_, _)
\* sep.join(parts)
Join(sep, parts) ==
    IF Len(parts) = 0 THEN <<>>
    ELSE IF Len(parts) = 1 THEN parts[1]
    ELSE parts[1] \o sep \o Join(sep, Tail(parts))

RECURSIVE SplitFrom(_, _, _)
\* the pieces of t between occurrences of the character sep, given the piece
\* acc read so far
SplitFrom(t, sep, acc) ==
    IF Len(t) = 0 THEN <<acc>>
    ELSE IF t[1] = sep THEN <<acc>> \o SplitFrom(Tail(t), sep, <<>>)
    ELSE SplitFrom(Tail(t), sep, Append(acc, t[1]))

\* t.split(sep) for a one-character sep
Split(t, sep) == SplitFrom(t, sep, <<>>)

\* [child.strip() for child in t.split('\n') if child.strip()]
StrippedLines(t) ==
    LET parts == Split(t, "\n")
        kept == SelectSeq(parts, LAMBDA x : Len(Strip(x)) > 0)
    IN [i \in 1..Len(kept) |-> Strip(kept[i])]

(***************************************************************************)
(* Grid structures: [totalGrids, grids], a grid is [id, totalChildren,     *)
(* children], a child is [id, text]. A missing id is the empty text.       *)
(***************************************************************************)
RECURSIVE Flatten(_)
Flatten(seqs) ==
    IF Len(seqs) = 0 THEN <<>> ELSE seqs[1] \o Flatten(Tail(seqs))

\* for grid in cleaned.get('grids', []): for child in grid.get('children', [])
AllChildren(cleaned) ==
    Flatten([g \in 1..Len(cleaned.grids) |-> cleaned.grids[g].children])

(***************************************************************************)
(* sanitize_llm_response                                                   *)
(***************************************************************************)
RECURSIVE DigitsEnd(_, _)
\* \d+ is greedy: the index after the digits that start at i
DigitsEnd(text, i) ==
    IF i <= Len(text) /\ IsDigit(text[i]) THEN DigitsEnd(text, i + 1) ELSE i

\* the index after a match of g\d+c\d+ that starts at i, or 0 when none does
MatchIdAt(text, i) ==
    IF i <= Len(text) /\ text[i] = "g"
    THEN LET j == DigitsEnd(text, i + 1) IN
         IF j > i + 1 /\ j <= Len(text) /\ text[j] = "c"
         THEN LET k == DigitsEnd(text, j + 1) IN IF k > j + 1 THEN k ELSE 0
         ELSE 0
    ELSE 0

RECURSIVE FindAllFrom(_, _)
FindAllFrom(text, i) ==
    IF i > Len(text) THEN <<>>
    ELSE LET e == MatchIdAt(text, i) IN
         IF e > 0 THEN <<SubSeq(text, i, e - 1)>> \o FindAllFrom(text, e)
         ELSE FindAllFrom(text, i + 1)

\* re.findall(r"g\d+c\d+", text)
FindAllIds(text) == FindAllFrom(text, 1)

\* child.get('id') of a child that has no id: None
NoId == <<"None">>

ValidIds_any(cleaned) ==
    {AllChildren(cleaned)[i].id : i \in 1..Len(AllChildren(cleaned))} \cup {<<"g", "7", "c", "7">>}
\* valid: the ids of the children of the cleaned grid, missing ids left out
ValidIds(cleaned) ==
    {c.id : c \in {AllChildren(cleaned)[i] : i \in 1..Len(AllChildren(cleaned))}}
        \ {<<>>, NoId}

RECURSIVE FilterIds(_, _, _)
\* for cid in ids: if cid in valid and cid not in seen: filtered.append(cid)
FilterIds(ids, valid, seen) ==
    IF Len(ids) = 0 THEN <<>>
    ELSE IF ids[1] \in valid /\ ids[1] \notin seen
         THEN <<ids[1]>> \o FilterIds(Tail(ids), valid, seen \cup {ids[1]})
         ELSE FilterIds(Tail(ids), valid, seen)

\* sanitize_llm_response(text, cleaned): the valid ids of the text, joined by newlines
sanitize_llm_response(text, cleaned) ==
    Join(<<"\n">>, FilterIds(FindAllIds(text), ValidIds(cleaned), {}))

(***************************************************************************)
(* SpecSan: sanitize_llm_response applied to model responses and grids.    *)
(***************************************************************************)
Id(g, c) == <<"g", g, "c", c>>

Child(id, text) == [id |-> id, text |-> text]

Grid(id, children) == [id |-> id, totalChildren |-> Len(children), children |-> children]

GridStructure(grids) == [totalGrids |-> Len(grids), grids |-> grids]

\* what a model response is made of: ids of the grids below, an id of no grid,
\* a digit that lengthens the id before it, a cut id, a line break and prose
SanPieces ==
    { Id("1", "0"), Id("1", "1"), Id("2", "0"), Id("7", "7"),
      <<"0">>, <<"\n">>, <<"g", "1">>, <<"x", " ">> }

RECURSIVE TextsOf(_, _)
\* the concatenations of at most n pieces
TextsOf(pieces, n) ==
    IF n = 0 THEN {<<>>}
    ELSE LET shorter == TextsOf(pieces, n - 1) IN
         shorter \cup {t \o p : t \in shorter, p \in pieces}

SanGrids ==
    { GridStructure(<<Grid(<<"g", "1">>, <<Child(Id("1", "0"), <<"a">>), Child(Id("1", "1"), <<"b">>)>>),
                      Grid(<<"g", "2">>, <<Child(Id("2", "0"), <<"a">>)>>)>>),
      GridStructure(<<Grid(<<"g", "1">>, <<Child(Id("1", "1"), <<"a">>),
                                           Child(<<"g", "1", "c", "1", "0">>, <<"b">>)>>)>>),
      GridStructure(<<Grid(<<"g", "2">>, <<Child(Id("2", "0"), <<"a">>), Child(<<>>, <<"b">>)>>)>>),
      GridStructure(<<>>) }

SanInit ==
    /\ now = 0
    /\ cb = CircuitBreakerInit
    /\ cbobs = NoObservation
    /\ streak = 0
    /\ fin \in [text : TextsOf(SanPieces, MaxPieces), cleaned : SanGrids]
    /\ fout = <<>>
    /\ fphase = "input"
    /\ hist = <<>>
    /\ PipeUnused

SanApply ==
    /\ fphase = "input"
    /\ fout' = sanitize_llm_response(fin.text, fin.cleaned)
    /\ fphase' = "done"
    /\ UNCHANGED <<now, cbvars, fin, hist, pipevars>>

SanNext == SanApply

SpecSan == SanInit /\ [][SanNext]_vars

\* x occurs in text at p as a whole id: not followed by a further digit
TokenAt(text, p, x) ==
    /\ p + Len(x) - 1 <= Len(text)
    /\ SubSeq(text, p, p + Len(x) - 1) = x
    /\ (p + Len(x) <= Len(text) => ~IsDigit(text[p + Len(x)]))

\* the first place where x occurs in text as a whole id, 0 when it does not
FirstTokenPos(text, x) ==
    LET ps == {p \in 1..Len(text) : TokenAt(text, p, x)} IN
    IF ps = {} THEN 0 ELSE CHOOSE p \in ps : \A q \in ps : p <= q

\* the ids of the children of a grid structure
ChildIdsOf(gs) ==
    {gs.grids[g].children[c].id : <<g, c>> \in
        {<<g, c>> \in (1..Len(gs.grids)) \X (1..10) :
            c <= Len(gs.grids[g].children)}}

\* C6: each id in the result of sanitize_llm_response is the id of a child of
\* the cleaned grid, no id occurs twice, the ids are in the order of their
\* first occurrence in the text, and a text with no valid id gives the empty
\* result.
C6_SanitizeSound ==
    fphase = "done" =>
        LET ids == StrippedLines(fout) IN
        /\ \A i \in 1..Len(ids) : ids[i] \in ChildIdsOf(fin.cleaned)
        /\ \A i, j \in 1..Len(ids) : i # j => ids[i] # ids[j]
        /\ \A i \in 1..Len(ids) : FirstTokenPos(fin.text, ids[i]) > 0
        /\ \A i, j \in 1..Len(ids) :
              i < j => FirstTokenPos(fin.text, ids[i]) < FirstTokenPos(fin.text, ids[j])
        /\ (\A x \in ChildIdsOf(fin.cleaned) \ {<<>>} : FirstTokenPos(fin.text, x) = 0)
              => (ids = <<>> /\ fout = <<>>)

\* a response of three ids, one of them of no child, that gives two ids
C6_Witness ==
    /\ fphase = "done"
    /\ Len(StrippedLines(fout)) = 2
    /\ Len(FindAllIds(fin.text)) = 3
    /\ \E i \in 1..3 : FindAllIds(fin.text)[i] \notin ChildIdsOf(fin.cleaned)

(***************************************************************************)
(* Rule-based filters                                                      *)
(***************************************************************************)
\* str.lower(), one character
LowerChar(ch) ==
    CASE ch = "A" -> "a" [] ch = "B" -> "b" [] ch = "C" -> "c" [] OTHER -> ch

\* str.lower()
Lower(t) == [i \in 1..Len(t) |-> LowerChar(t[i])]

\* needle in hay
Contains(hay, needle) ==
    \E p \in 1..(Len(hay) + 1) :
        /\ p + Len(needle) - 1 <= Len(hay)
        /\ SubSeq(hay, p, p + Len(needle) - 1) = needle

AnyTermIn_exact(terms, child_text) ==
    \E i \in 1..Len(terms) : Contains(child_text, terms[i])
\* any(term.lower() in child_text for term in terms)
AnyTermIn(terms, child_text) ==
    \E i \in 1..Len(terms) : Contains(child_text, Lower(terms[i]))

RECURSIVE RuleBasedOver(_, _, _)
\* the loop of apply_rule_based_filtering over the children, in order
RuleBasedOver(children, whitelist, blacklist) ==
    IF Len(children) = 0 THEN <<>>
    ELSE LET child == children[1]
             child_text == Lower(child.text)
             rest == RuleBasedOver(Tail(children), whitelist, blacklist)
         IN  IF child.id \in {<<>>, NoId} THEN rest
             ELSE IF AnyTermIn(whitelist, child_text) THEN rest
             ELSE IF AnyTermIn(blacklist, child_text) THEN <<child.id>> \o rest
             ELSE rest

\* apply_rule_based_filtering(cleaned_grid, analysis_request): items_to_hide
apply_rule_based_filtering(cleaned_grid, whitelist, blacklist) ==
    RuleBasedOver(AllChildren(cleaned_grid), whitelist, blacklist)

\* 'c' in child_id
HasChar(t, ch) == \E i \in 1..Len(t) : t[i] = ch

\* child_id.split('c')[0] if 'c' in child_id else grid.get('id', 'g1')
GridIdOf(child_id, grid) ==
    IF HasChar(child_id, "c") THEN Split(child_id, "c")[1] ELSE grid.id

RECURSIVE KeywordOverChildren(_, _, _)
\* the inner loops of fallback_keyword_matching over the children of one grid
KeywordOverChildren(grid, children, blacklist_lower) ==
    IF Len(children) = 0 THEN <<>>
    ELSE LET child == children[1]
             rest == KeywordOverChildren(grid, Tail(children), blacklist_lower)
         IN  IF \E k \in 1..Len(blacklist_lower) :
                    Contains(Lower(child.text), blacklist_lower[k])
             THEN <<[grid |-> GridIdOf(child.id, grid), children |-> <<child.id>>]>> \o rest
             ELSE rest

\* fallback_keyword_matching(cleaned_grid, blacklist): one {grid_id: [child_id]}
\* for each child whose text contains a blacklist keyword
fallback_keyword_matching(cleaned_grid, blacklist) ==
    IF Len(blacklist) = 0 \/ Len(cleaned_grid.grids) = 0 THEN <<>>
    ELSE LET blacklist_lower == [k \in 1..Len(blacklist) |-> Lower(blacklist[k])] IN
         Flatten([g \in 1..Len(cleaned_grid.grids) |->
                    KeywordOverChildren(cleaned_grid.grids[g],
                                        cleaned_grid.grids[g].children,
                                        blacklist_lower)])

\* fallback_keyword_matching raises: `'c' in child_id` is a TypeError when
\* the child whose text holds a keyword has no id
KeywordMatchingRaises(cleaned_grid, blacklist) ==
    /\ Len(blacklist) > 0
    /\ \E i \in 1..Len(AllChildren(cleaned_grid)) :
          /\ AllChildren(cleaned_grid)[i].id = NoId
          /\ \E k \in 1..Len(blacklist) :
                Contains(Lower(AllChildren(cleaned_grid)[i].text), Lower(blacklist[k]))

RECURSIVE GroupByGrid(_, _)
\* the grid_map of convert_newline_format_to_json, in insertion order
GroupByGrid(child_ids, grid_map) ==
    IF Len(child_ids) = 0 THEN grid_map
    ELSE LET child_id == child_ids[1] IN
         IF HasChar(child_id, "c")
         THEN LET grid_id == Split(child_id, "c")[1]
                  at == {i \in 1..Len(grid_map) : grid_map[i].grid = grid_id}
              IN  IF at = {}
                  THEN GroupByGrid(Tail(child_ids),
                                   Append(grid_map, [grid |-> grid_id, children |-> <<child_id>>]))
                  ELSE GroupByGrid(Tail(child_ids),
                                   [grid_map EXCEPT ![CHOOSE i \in at : TRUE].children =
                                                        Append(@, child_id)])
         ELSE GroupByGrid(Tail(child_ids), grid_map)

\* convert_newline_format_to_json(newline_format)
convert_newline_format_to_json(newline_format) ==
    IF Len(Strip(newline_format)) = 0 THEN <<>>
    ELSE GroupByGrid(StrippedLines(newline_format), <<>>)

(***************************************************************************)
(* SpecRule: apply_rule_based_filtering applied to grids and term lists.   *)
(***************************************************************************)
RuleChars == {<<"a">>, <<"A">>, <<"b">>, <<"B">>}

RuleLists ==
    { <<>>, << <<"a">> >>, << <<"B">> >>, << <<"a", "b">>, <<"A">> >> }

\* one grid of two children: the first with an id and any text, the second
\* with or without an id
RuleGrids ==
    { GridStructure(<<Grid(<<"g", "1">>, <<Child(Id("1", "0"), t1), Child(id2, t2)>>)>>) :
        t1 \in TextsOf(RuleChars, MaxRuleText),
        id2 \in {Id("1", "1"), <<>>},
        t2 \in {<<>>, <<"b">>, <<"B", "a">>} }

RuleInit ==
    /\ now = 0
    /\ cb = CircuitBreakerInit
    /\ cbobs = NoObservation
    /\ streak = 0
    /\ fin \in [cleaned : RuleGrids, whitelist : RuleLists, blacklist : RuleLists]
    /\ fout = <<>>
    /\ fphase = "input"
    /\ hist = <<>>
    /\ PipeUnused

RuleApply ==
    /\ fphase = "input"
    /\ fout' = apply_rule_based_filtering(fin.cleaned, fin.whitelist, fin.blacklist)
    /\ fphase' = "done"
    /\ UNCHANGED <<now, cbvars, fin, hist, pipevars>>

RuleNext == RuleApply

SpecRule == RuleInit /\ [][RuleNext]_vars

\* term occurs in text when case is ignored
OccursIn(text, term) ==
    \E p \in 0..Len(text) :
        /\ p + Len(term) <= Len(text)
        /\ \A k \in 1..Len(term) : LowerChar(text[p + k]) = LowerChar(term[k])

MatchesList(text, terms) == \E i \in 1..Len(terms) : OccursIn(text, terms[i])

\* C8: a child whose text contains, case ignored, a whitelist term and a
\* blacklist term is never in the result of apply_rule_based_filtering; a
\* child with an id whose text contains a blacklist term and no whitelist
\* term always is; no other child is.
C8_RuleBasedExact ==
    fphase = "done" =>
        \A i \in 1..Len(AllChildren(fin.cleaned)) :
            LET child == AllChildren(fin.cleaned)[i]
                hidden == \E k \in 1..Len(fout) : fout[k] = child.id
            IN  /\ (MatchesList(child.text, fin.whitelist)
                      /\ MatchesList(child.text, fin.blacklist)) => ~hidden
                /\ hidden <=> (/\ child.id # <<>>
                               /\ MatchesList(child.text, fin.blacklist)
                               /\ ~MatchesList(child.text, fin.whitelist))

\* one child matches both lists and is kept, the other matches the blacklist
\* only in another case and is hidden
C8_Witness ==
    /\ fphase = "done"
    /\ fout = <<Id("1", "1")>>
    /\ MatchesList(fin.cleaned.grids[1].children[1].text, fin.whitelist)
    /\ MatchesList(fin.cleaned.grids[1].children[1].text, fin.blacklist)
    /\ fin.cleaned.grids[1].children[2].text = <<"b">>
    /\ fin.blacklist = << <<"B">> >>

(***************************************************************************)
(* Python dicts: a sequence of [key, val] in insertion order.              *)
(***************************************************************************)
EmptyDict == <<>>

\* k in d
DictHas(d, k) == \E i \in 1..Len(d) : d[i].key = k

\* d[k]
DictGet(d, k) == d[CHOOSE i \in 1..Len(d) : d[i].key = k].val

\* d[k] = v: an existing key keeps its place, a new one goes last
DictSet(d, k, v) ==
    IF DictHas(d, k)
    THEN [i \in 1..Len(d) |-> IF d[i].key = k THEN [key |-> k, val |-> v] ELSE d[i]]
    ELSE Append(d, [key |-> k, val |-> v])

\* del d[k]
DictDel(d, k) == SelectSeq(d, LAMBDA e : e.key # k)

\* the keys of a counter dict (ip_counts, access_counts), kept as a function
CountOf(f, k) == IF k \in DOMAIN f THEN f[k] ELSE 0

CountSet(f, k, v) == [x \in DOMAIN f \cup {k} |-> IF x = k THEN v ELSE f[x]]

NoCounts == [x \in {} |-> 0]

(***************************************************************************)
(* Rate limiter                                                            *)
(***************************************************************************)
\* rate_limit_data at import time
RateLimitInit == [ip_counts |-> NoCounts, last_reset |-> 0]

reset_rate_limit_if_needed_keep(data, t) ==
    IF t - data.last_reset >= rate_window THEN [data EXCEPT !.last_reset = t] ELSE data
\* reset_rate_limit_if_needed
reset_rate_limit_if_needed(data, t) ==
    IF t - data.last_reset >= rate_window
    THEN [ip_counts |-> NoCounts, last_reset |-> t]
    ELSE data

track_ip_request_shared(data, ip_address, t) ==
    LET r == reset_rate_limit_if_needed(data, t)
        request_count == CountOf(r.ip_counts, ip_address) + 1
    IN  [rl |-> [r EXCEPT !.ip_counts =
                    [x \in DOMAIN r.ip_counts \cup {ip_address} |-> CountOf(r.ip_counts, x) + 1]],
         request_count |-> request_count]
track_ip_request_overwrite(data, ip_address, t) ==
    LET r == reset_rate_limit_if_needed(data, t)
        request_count == CountOf(r.ip_counts, ip_address) + 1
    IN  [rl |-> [r EXCEPT !.ip_counts = CountSet(NoCounts, ip_address, request_count)],
         request_count |-> request_count]
\* track_ip_request(ip_address): the limiter afterwards and request_count
track_ip_request(data, ip_address, t) ==
    LET r == reset_rate_limit_if_needed(data, t)
        request_count == CountOf(r.ip_counts, ip_address) + 1
    IN  [rl |-> [r EXCEPT !.ip_counts = CountSet(@, ip_address, request_count)],
         request_count |-> request_count]

OverLimit_inclusive(request_count) == request_count >= rate_limit
\* fetch_distracting_chunks: if request_count > 3000
OverLimit(request_count) == request_count > rate_limit

(***************************************************************************)
(* Cache                                                                   *)
(***************************************************************************)
Tiers == <<"hot_cache", "warm_cache", "cold_cache", "responses">>

\* api_cache at import time
CacheInit ==
    [ hot_cache |-> EmptyDict, warm_cache |-> EmptyDict, cold_cache |-> EmptyDict,
      responses |-> EmptyDict, access_counts |-> NoCounts ]

\* sorted(list) of texts: by code point, shorter first among prefixes
CharCode(ch) ==
    CASE ch = "A" -> 65 [] ch = "B" -> 66 [] ch = "C" -> 67
      [] ch = "a" -> 97 [] ch = "b" -> 98 [] ch = "c" -> 99
      [] OTHER -> 120

RECURSIVE TextLeq(_, _)
TextLeq(x, y) ==
    IF Len(x) = 0 THEN TRUE
    ELSE IF Len(y) = 0 THEN FALSE
    ELSE IF x[1] = y[1] THEN TextLeq(Tail(x), Tail(y))
    ELSE CharCode(x[1]) < CharCode(y[1])

RECURSIVE InsertSorted(_, _)
InsertSorted(sorted, x) ==
    IF Len(sorted) = 0 THEN <<x>>
    ELSE IF TextLeq(sorted[1], x) THEN <<sorted[1]>> \o InsertSorted(Tail(sorted), x)
    ELSE <<x>> \o sorted

RECURSIVE Sorted(_)
\* sorted(terms)
Sorted(terms) ==
    IF Len(terms) = 0 THEN <<>>
    ELSE InsertSorted(Sorted(SubSeq(terms, 1, Len(terms) - 1)), terms[Len(terms)])

RECURSIVE Sum(_)
Sum(nums) == IF Len(nums) = 0 THEN 0 ELSE nums[1] + Sum(Tail(nums))

get_cache_key_unsorted(grid_structure, url, whitelist, blacklist) ==
    [ url            |-> url,
      whitelist      |-> whitelist,
      blacklist      |-> blacklist,
      grid_ids       |-> [g \in 1..Len(grid_structure.grids) |-> grid_structure.grids[g].id],
      total_children |-> Sum([g \in 1..Len(grid_structure.grids) |->
                                grid_structure.grids[g].totalChildren]) ]
\* get_cache_key: the key_data that is hashed (md5 taken as injective)
get_cache_key(grid_structure, url, whitelist, blacklist) ==
    [ url            |-> url,
      whitelist      |-> Sorted(whitelist),
      blacklist      |-> Sorted(blacklist),
      grid_ids       |-> [g \in 1..Len(grid_structure.grids) |-> grid_structure.grids[g].id],
      total_children |-> Sum([g \in 1..Len(grid_structure.grids) |->
                                grid_structure.grids[g].totalChildren]) ]

Fresh_inclusive(cached_data, t) == t - cached_data.timestamp <= max_age
\* current_time - cached_data['timestamp'] < api_cache['max_age']
Fresh(cached_data, t) == t - cached_data.timestamp < max_age

\* api_cache['access_counts'][cache_key] = api_cache['access_counts'].get(cache_key, 0) + 1
CountAccess_once(c, cache_key) ==
    [c EXCEPT !.access_counts = CountSet(@, cache_key, 1)]

CountAccess(c, cache_key) ==
    [c EXCEPT !.access_counts = CountSet(@, cache_key, CountOf(@, cache_key) + 1)]

Miss(c) == [cache |-> c, hit |-> FALSE, response |-> <<>>]

Hit(c, cached_data) == [cache |-> c, hit |-> TRUE, response |-> cached_data.response]

\* get_cached_response, the legacy map
LookupLegacy(c, cache_key, t) ==
    IF DictHas(c.responses, cache_key)
    THEN LET cached_data == DictGet(c.responses, cache_key) IN
         IF Fresh(cached_data, t)
         THEN Hit(CountAccess(c, cache_key), cached_data)
         ELSE Miss([c EXCEPT !.responses = DictDel(@, cache_key)])
    ELSE Miss(c)

LookupCold_stay(c, cache_key, t) ==
    IF DictHas(c.cold_cache, cache_key)
    THEN LET cached_data == DictGet(c.cold_cache, cache_key) IN
         IF Fresh(cached_data, t)
         THEN Hit(CountAccess(c, cache_key), cached_data)
         ELSE LookupLegacy([c EXCEPT !.cold_cache = DictDel(@, cache_key)], cache_key, t)
    ELSE LookupLegacy(c, cache_key, t)
\* get_cached_response, the cold tier and on
LookupCold(c, cache_key, t) ==
    IF DictHas(c.cold_cache, cache_key)
    THEN LET cached_data == DictGet(c.cold_cache, cache_key) IN
         IF Fresh(cached_data, t)
         THEN Hit([CountAccess(c, cache_key) EXCEPT
                      !.warm_cache = DictSet(@, cache_key, cached_data),
                      !.cold_cache = DictDel(@, cache_key)], cached_data)
         ELSE LookupLegacy([c EXCEPT !.cold_cache = DictDel(@, cache_key)], cache_key, t)
    ELSE LookupLegacy(c, cache_key, t)

\* get_cached_response, the warm tier and on
LookupWarm(c, cache_key, t) ==
    IF DictHas(c.warm_cache, cache_key)
    THEN LET cached_data == DictGet(c.warm_cache, cache_key)
             counted == CountAccess(c, cache_key)
         IN  IF Fresh(cached_data, t)
             THEN IF counted.access_counts[cache_key] > promote_hot_above
                  THEN Hit([counted EXCEPT
                               !.hot_cache = DictSet(@, cache_key, cached_data),
                               !.warm_cache = DictDel(@, cache_key)], cached_data)
                  ELSE Hit(counted, cached_data)
             ELSE LookupCold([c EXCEPT !.warm_cache = DictDel(@, cache_key)], cache_key, t)
    ELSE LookupCold(c, cache_key, t)

\* get_cached_response(cache_key) at time t: the cache afterwards, whether a
\* response is returned, and the response
get_cached_response(c, cache_key, t) ==
    IF DictHas(c.hot_cache, cache_key)
    THEN LET cached_data == DictGet(c.hot_cache, cache_key) IN
         IF Fresh(cached_data, t)
         THEN Hit(CountAccess(c, cache_key), cached_data)
         ELSE LookupWarm([c EXCEPT !.hot_cache = DictDel(@, cache_key)], cache_key, t)
    ELSE LookupWarm(c, cache_key, t)

\* cleanup_cache_if_needed, the expiry loop over one tier
DropExpired(d, t) == SelectSeq(d, LAMBDA e : ~(t - e.val.timestamp > max_age))

\* the place of the item d[i] in sorted(items, key=timestamp): the sort is
\* stable, so items of one timestamp stay in insertion order
SortedPlace(d, i) ==
    Cardinality({ j \in 1..Len(d) :
                    \/ d[j].val.timestamp < d[i].val.timestamp
                    \/ d[j].val.timestamp = d[i].val.timestamp /\ j <= i })

\* evict_from_tier(tier, count), on the dict of the tier
evict_from_tier(d, count) ==
    IF Len(d) <= count THEN EmptyDict
    ELSE LET gone == { d[i].key : i \in { j \in 1..Len(d) : SortedPlace(d, j) <= count } }
         IN  SelectSeq(d, LAMBDA e : e.key \notin gone)

cleanup_cache_if_needed_legacy(c, t) ==
    LET swept == [c EXCEPT !.hot_cache = DropExpired(@, t),
                           !.warm_cache = DropExpired(@, t),
                           !.cold_cache = DropExpired(@, t),
                           !.responses = DropExpired(@, t)]
        total_size == Len(swept.hot_cache) + Len(swept.warm_cache)
                        + Len(swept.cold_cache) + Len(swept.responses)
    IN  IF total_size > max_size
        THEN [swept EXCEPT !.cold_cache = evict_from_tier(@, evict_cold),
                           !.warm_cache = evict_from_tier(@, evict_warm),
                           !.hot_cache = evict_from_tier(@, evict_hot),
                           !.responses = evict_from_tier(@, evict_cold)]
        ELSE swept
\* cleanup_cache_if_needed
cleanup_cache_if_needed(c, t) ==
    LET swept == [c EXCEPT !.hot_cache = DropExpired(@, t),
                           !.warm_cache = DropExpired(@, t),
                           !.cold_cache = DropExpired(@, t),
                           !.responses = DropExpired(@, t)]
        total_size == Len(swept.hot_cache) + Len(swept.warm_cache)
                        + Len(swept.cold_cache) + Len(swept.responses)
    IN  IF total_size > max_size
        THEN [swept EXCEPT !.cold_cache = evict_from_tier(@, evict_cold),
                           !.warm_cache = evict_from_tier(@, evict_warm),
                           !.hot_cache = evict_from_tier(@, evict_hot)]
        ELSE swept

\* 'grid_signature': ... if 'cleaned_grid' in locals() else None: cleaned_grid
\* is no local of cache_response
NoSignature == [present |-> FALSE]

cache_response_cold(c, cache_key, response, t) ==
    LET cleaned == cleanup_cache_if_needed(c, t)
        cache_data == [ response |-> response, timestamp |-> t,
                        access_count |-> CountOf(cleaned.access_counts, cache_key),
                        grid_signature |-> NoSignature ]
    IN  [cleaned EXCEPT !.cold_cache = DictSet(@, cache_key, cache_data),
                        !.responses = DictSet(@, cache_key, cache_data)]
\* cache_response(cache_key, response) at time t
cache_response(c, cache_key, response, t) ==
    LET cleaned == cleanup_cache_if_needed(c, t)
        access_count == CountOf(cleaned.access_counts, cache_key)
        cache_data == [ response |-> response, timestamp |-> t,
                        access_count |-> access_count, grid_signature |-> NoSignature ]
        placed == IF access_count >= hot_from
                  THEN [cleaned EXCEPT !.hot_cache = DictSet(@, cache_key, cache_data)]
                  ELSE IF access_count >= warm_from
                  THEN [cleaned EXCEPT !.warm_cache = DictSet(@, cache_key, cache_data)]
                  ELSE [cleaned EXCEPT !.cold_cache = DictSet(@, cache_key, cache_data)]
    IN  [placed EXCEPT !.responses = DictSet(@, cache_key, cache_data)]

(***************************************************************************)
(* Preprocessing. A child of a request is [id, text, valid] and a grid of  *)
(* a request is [id, totalChildren, quality, children]: text stands for    *)
(* the text as ContentPreprocessor leaves it, valid for is_valid_content   *)
(* of it and quality for is_high_quality_content of the grid.              *)
(***************************************************************************)
\* ContentPreprocessor.process_single_grid: the children that are valid
process_single_grid(grid) ==
    LET kept == SelectSeq(grid.children, LAMBDA ch : ch.valid) IN
    [ id |-> grid.id,
      children |-> [i \in 1..Len(kept) |-> [id |-> kept[i].id, text |-> kept[i].text]],
      totalChildren |-> Len(kept) ]

\* ContentPreprocessor.preprocess_grid_structure
preprocess_grid_structure(grid_structure) ==
    LET keep == SelectSeq(grid_structure.grids,
                          LAMBDA g : Len(process_single_grid(g).children) > 0 /\ g.quality)
        processed_grids == [i \in 1..Len(keep) |-> process_single_grid(keep[i])]
    IN  [totalGrids |-> Len(processed_grids), grids |-> processed_grids]

\* cleaned_child['text'][:50] + "..."
Truncate(text) ==
    IF Len(text) > max_text THEN SubSeq(text, 1, max_text) \o <<".", ".", ".">> ELSE text

\* clean_grid_structure_for_llm
clean_grid_structure_for_llm(grid_structure) ==
    [ totalGrids |-> grid_structure.totalGrids,
      grids |-> [g \in 1..Len(grid_structure.grids) |->
          LET grid == grid_structure.grids[g]
              children == IF Len(grid.children) > max_children
                          THEN SubSeq(grid.children, 1, max_children)
                          ELSE grid.children
          IN  [ id |-> grid.id,
                totalChildren |-> grid.totalChildren,
                children |-> [i \in 1..Len(children) |->
                                [id |-> children[i].id, text |-> Truncate(children[i].text)]] ]] ]

\* cleaned_grid of fetch_distracting_chunks
CleanedGrid(request) ==
    clean_grid_structure_for_llm(preprocess_grid_structure(request.gridStructure))

(***************************************************************************)
(* Responses of fetch_distracting_chunks                                   *)
(***************************************************************************)
\* a list of {grid_id: [child_id, ...]}
ListResponse(items) ==
    [kind |-> "list", items |-> items, data |-> <<>>, fallback_used |-> "", status |-> 200]

\* the dict handle_ai_failure returns
DictResponse(data, fallback_used) ==
    [kind |-> "dict", items |-> <<>>, data |-> data, fallback_used |-> fallback_used,
     status |-> 200]

\* HTTPException(status_code=status)
ErrorResponse(status) ==
    [kind |-> "error", items |-> <<>>, data |-> <<>>, fallback_used |-> "", status |-> status]

NoResponse == [kind |-> "none", items |-> <<>>, data |-> <<>>, fallback_used |-> "", status |-> 0]

\* fetch_distracting_chunks, result = fallback_keyword_matching(...): its
\* list on the given path, or its exception at the outer except as a 500
KeywordDecision(cleaned_grid, blacklist, path) ==
    IF KeywordMatchingRaises(cleaned_grid, blacklist)
    THEN [response |-> ErrorResponse(500), path |-> "error"]
    ELSE [response |-> ListResponse(fallback_keyword_matching(cleaned_grid, blacklist)),
          path |-> path]

(***************************************************************************)
(* handle_ai_failure. An error message is the set of the trigger phrases   *)
(* its lower-cased text contains.                                          *)
(***************************************************************************)
\* raise Exception("Circuit breaker is OPEN")
BreakerOpenMessage == {"circuit breaker"}

\* create_grid_signature, avg_text_length kept as text_sum / text_count
create_grid_signature(cleaned_grid) ==
    LET texts == SelectSeq(AllChildren(cleaned_grid), LAMBDA ch : Len(ch.text) > 0) IN
    [ present        |-> TRUE,
      total_grids    |-> Len(cleaned_grid.grids),
      total_children |-> Sum([g \in 1..Len(cleaned_grid.grids) |->
                                cleaned_grid.grids[g].totalChildren]),
      text_sum       |-> Sum([i \in 1..Len(texts) |-> Len(texts[i].text)]),
      text_count     |-> Len(texts) ]

Abs(x) == IF x < 0 THEN -x ELSE x

Max(x, y) == IF x >= y THEN x ELSE y

\* calculate_grid_similarity(sig1, sig2) > 0.8, over the common denominator
\* of the two average text lengths
SimilarEnough(sig1, sig2) ==
    IF ~sig1.present \/ ~sig2.present THEN FALSE
    ELSE LET n1 == Max(sig1.text_count, 1)
             n2 == Max(sig2.text_count, 1)
             den == n1 * n2
             g1 == sig1.total_grids * den
             g2 == sig2.total_grids * den
             c1 == sig1.total_children * den
             c2 == sig2.total_children * den
             a1 == sig1.text_sum * n2
             a2 == sig2.text_sum * n1
             total_diff == Abs(g1 - g2) + Abs(c1 - c2) + Abs(a1 - a2)
             max_diff == Max(Max(Max(g1, g2), Max(c1, c2)), Max(a1, a2))
         IN  IF max_diff = 0 THEN TRUE
             ELSE 5 * total_diff < 3 * max_diff

\* find_similar_cached_response: found when an entry is similar enough;
\* raises when its response is a list, which has no .get
find_similar_cached_response(cleaned_grid, c) ==
    LET grid_signature == create_grid_signature(cleaned_grid)
        entries == c.hot_cache \o c.warm_cache \o c.cold_cache \o c.responses
        similar == {i \in 1..Len(entries) :
                        SimilarEnough(grid_signature, entries[i].val.grid_signature)}
    IN  IF similar = {} THEN [found |-> FALSE, raises |-> FALSE, data |-> <<>>]
        ELSE LET first == entries[CHOOSE i \in similar : \A j \in similar : i <= j].val IN
             IF first.response.kind = "dict"
             THEN [found |-> TRUE, raises |-> FALSE, data |-> first.response.data]
             ELSE [found |-> TRUE, raises |-> TRUE, data |-> <<>>]

\* one strategy of handle_ai_failure that was entered: whether its body
\* raised (and the except clause swallowed it), whether it returned, and
\* for strategy 1 how the request to the alternative model ended
Attempt(strategy, raised, returned) ==
    [strategy |-> strategy, raised |-> raised, returned |-> returned, answer |-> "none"]

\* return None; attempts lists the strategies entered, in the order of entry
NoResult == [some |-> FALSE, response |-> NoResponse, attempts |-> <<>>]

\* the answers of the alternative model under which the body of strategy 1
\* raises: a 200 answer (NameError at parse_ai_response) or a failed request;
\* any other status raises nothing and returns nothing
AltRaises(outcome) == outcome \in {"ok", "failed"}

\* handle_ai_failure, strategy 1 once the alternative model has answered:
\* a 200 answer reaches parse_ai_response, a name that is defined nowhere,
\* and the NameError is swallowed like any other failure of the strategy
AlternateModelResult(outcome) ==
    [NoResult EXCEPT !.attempts =
        <<[Attempt("alternate_model", AltRaises(outcome), FALSE) EXCEPT !.answer = outcome]>>]

RuleBasedResult_always(error_message, cleaned_grid, request) ==
    IF "circuit breaker" \in error_message
    THEN LET rule_based_result ==
                 apply_rule_based_filtering(cleaned_grid, request.whitelist, request.blacklist)
         IN  [some |-> TRUE, response |-> DictResponse(rule_based_result, "rule_based"),
              attempts |-> <<Attempt("rule_based", FALSE, TRUE)>>]
    ELSE NoResult
\* handle_ai_failure, strategy 3
RuleBasedResult(error_message, cleaned_grid, request) ==
    IF "circuit breaker" \in error_message
    THEN LET rule_based_result ==
                 apply_rule_based_filtering(cleaned_grid, request.whitelist, request.blacklist)
         IN  IF Len(rule_based_result) > 0
             THEN [some |-> TRUE, response |-> DictResponse(rule_based_result, "rule_based"),
                   attempts |-> <<Attempt("rule_based", FALSE, TRUE)>>]
             ELSE [NoResult EXCEPT !.attempts = <<Attempt("rule_based", FALSE, FALSE)>>]
    ELSE NoResult

\* handle_ai_failure, strategy 2 and on
SimilarCachedResult(error_message, cleaned_grid, request, c) ==
    IF "timeout" \in error_message \/ "connection" \in error_message
    THEN LET similar_response == find_similar_cached_response(cleaned_grid, c) IN
         IF similar_response.found /\ ~similar_response.raises
               /\ Len(similar_response.data) > 0
         THEN [some |-> TRUE,
               response |-> DictResponse(similar_response.data, "cached_similar"),
               attempts |-> <<Attempt("cached_similar", FALSE, TRUE)>>]
         ELSE [RuleBasedResult(error_message, cleaned_grid, request) EXCEPT !.attempts =
                  <<Attempt("cached_similar",
                            similar_response.found /\ similar_response.raises, FALSE)>> \o @]
    ELSE RuleBasedResult(error_message, cleaned_grid, request)

TriesAlternateModel_timeout(error_message) ==
    "rate limit" \in error_message \/ "quota" \in error_message \/ "timeout" \in error_message
\* whether handle_ai_failure tries the alternative model
TriesAlternateModel(error_message) ==
    "rate limit" \in error_message \/ "quota" \in error_message

FallbackDecision_propagate(fallback_result, cleaned_grid, request) ==
    IF \E i \in 1..Len(fallback_result.attempts) : fallback_result.attempts[i].raised
    THEN [response |-> ErrorResponse(500), path |-> "error"]
    ELSE IF fallback_result.some
    THEN [response |-> fallback_result.response, path |-> "cascade"]
    ELSE KeywordDecision(cleaned_grid, request.blacklist, "final_fallback")
\* fetch_distracting_chunks, the except branch after handle_ai_failure:
\* the fallback result if there is one, else fallback_keyword_matching
FallbackDecision(fallback_result, cleaned_grid, request) ==
    IF fallback_result.some
    THEN [response |-> fallback_result.response, path |-> "cascade"]
    ELSE KeywordDecision(cleaned_grid, request.blacklist, "final_fallback")

AfterRaise_stored(c, cache_key, response, t) == cache_response(c, cache_key, response, t)
\* fetch_distracting_chunks, a 200 answer without choices[0].message.content:
\* the exception passes over cache_response to the outer except
AfterRaise(c, cache_key, response, t) == c

\* fetch_distracting_chunks, the model answered 200 with this content
PrimaryDecision(content, cleaned_grid, request) ==
    LET sanitized == sanitize_llm_response(Strip(content), cleaned_grid) IN
    IF Len(sanitized) > 0 /\ Len(Strip(sanitized)) > 0
    THEN [response |-> ListResponse(convert_newline_format_to_json(sanitized)),
          path |-> "primary"]
    ELSE KeywordDecision(cleaned_grid, request.blacklist, "empty_net")

(***************************************************************************)
(* SpecCB: the breaker alone, called with operations that return or raise. *)
(***************************************************************************)
CBInit ==
    /\ now = 0
    /\ cb = CircuitBreakerInit
    /\ cbobs = NoObservation
    /\ streak = 0
    /\ fin = <<>>
    /\ fout = <<>>
    /\ fphase = "unused"
    /\ hist = <<>>
    /\ PipeUnused

CBCall ==
    /\ cb.total_requests < MaxCBCalls
    /\ \E funcRaises \in BOOLEAN :
        LET r == call(cb, funcRaises, now) IN
        /\ cb' = r.cb
        /\ cbobs' = Observe(cb, r, now)
        /\ streak' = NextStreak(streak, r)
    /\ UNCHANGED <<now, fvars, pipevars>>

CBTick ==
    /\ now + CBTickStep <= CBMaxTime
    /\ now' = now + CBTickStep
    /\ UNCHANGED <<cbvars, fvars, pipevars>>

CBNext == CBCall \/ CBTick

SpecCB == CBInit /\ [][CBNext]_vars

(***************************************************************************)
(* Claims about the breaker, checked under SpecCB.                         *)
(***************************************************************************)
\* C1: from CLOSED with failure_count 0, after failure_threshold consecutive
\* calls whose operation fails the breaker is OPEN, and it is not OPEN after
\* fewer such calls.
C1_OpensAtThreshold ==
    /\ streak = failure_threshold => cb.state = "OPEN"
    /\ (streak >= 0 /\ streak < failure_threshold) => cb.state # "OPEN"

C1_Witness == streak = failure_threshold /\ cb.state = "OPEN" /\ cbobs.pre_state = "CLOSED"

\* C2: a call made while OPEN is refused without invoking the operation when
\* now - last_failure_time < reset_timeout; otherwise the breaker becomes
\* HALF_OPEN first and the operation is invoked exactly once.
C2_OpenCall ==
    cbobs.pre_state = "OPEN" =>
        IF cbobs.pre_elapsed < reset_timeout
        THEN cbobs.outcome = "refused" /\ cbobs.invoked = 0
        ELSE cbobs.state_at_invoke = "HALF_OPEN" /\ cbobs.invoked = 1
             /\ cbobs.outcome # "refused"

C2_Witness ==
    /\ cbobs.pre_state = "OPEN"
    /\ cbobs.pre_elapsed = reset_timeout
    /\ cbobs.state_at_invoke = "HALF_OPEN"
    /\ cbobs.invoked = 1

\* C3: when the operation of a call in HALF_OPEN succeeds, the state becomes
\* CLOSED and failure_count becomes 0.
C3_HalfOpenSuccess ==
    (cbobs.state_at_invoke = "HALF_OPEN" /\ cbobs.outcome = "returned")
        => (cb.state = "CLOSED" /\ cb.failure_count = 0)

C3_Witness ==
    /\ cbobs.state_at_invoke = "HALF_OPEN"
    /\ cbobs.outcome = "returned"
    /\ cbobs.pre_count >= failure_threshold
    /\ cb.state = "CLOSED"

\* C4: when the operation of a call in CLOSED succeeds, failure_count is
\* reset to 0 (so failures separated by a success do not add up).
C4_ClosedSuccessResets ==
    (cbobs.pre_state = "CLOSED" /\ cbobs.outcome = "returned")
        => cb.failure_count = 0


(***************************************************************************)
(* SpecPipe: fetch_distracting_chunks, one call after another, over the    *)
(* rate limiter, the cache and the breaker. A call stops at each await of  *)
(* an answer of the model.                                                 *)
(***************************************************************************)
\* the handler tasks; one, so that the calls follow one another
Tasks == {"t1"}

RawChild(id, text, valid) == [id |-> id, text |-> text, valid |-> valid]

RawGrid(id, quality, children) ==
    [id |-> id, totalChildren |-> Len(children), quality |-> quality, children |-> children]

FilterRequest(ip, whitelist, blacklist, grids) ==
    [ ip |-> ip, currentUrl |-> "https://a/", whitelist |-> whitelist,
      blacklist |-> blacklist, gridStructure |-> GridStructure(grids) ]

NoRequest == FilterRequest("", <<>>, <<>>, <<>>)

\* two requests of one cache key and different children, and one with a
\* whitelist
ReqA ==
    FilterRequest("ip1", <<>>, << <<"b">> >>,
        <<RawGrid(<<"g", "1">>, TRUE, <<RawChild(Id("1", "0"), <<"a", "b">>, TRUE),
                                        RawChild(Id("1", "1"), <<"a">>, TRUE)>>),
          RawGrid(<<"g", "2">>, TRUE, <<RawChild(Id("2", "0"), <<"B">>, TRUE)>>)>>)

ReqB ==
    FilterRequest("ip2", <<>>, << <<"b">> >>,
        <<RawGrid(<<"g", "1">>, TRUE, <<RawChild(Id("1", "0"), <<"b">>, TRUE)>>),
          RawGrid(<<"g", "2">>, TRUE, <<RawChild(Id("2", "0"), <<"a">>, TRUE),
                                        RawChild(Id("2", "1"), <<"b">>, FALSE)>>)>>)

ReqC ==
    FilterRequest("ip1", << <<"A">> >>, << <<"b">> >>, ReqA.gridStructure.grids)

\* a request one of whose children has a text and no id
ReqD ==
    FilterRequest("ip2", <<>>, << <<"b">> >>,
        <<RawGrid(<<"g", "1">>, TRUE, <<RawChild(NoId, <<"b">>, TRUE)>>)>>)

\* a request two children of one grid of which hold a blacklist term
ReqE ==
    FilterRequest("ip2", <<>>, << <<"a">> >>, ReqA.gridStructure.grids)

Requests == {ReqA, ReqB, ReqC, ReqD, ReqE}

\* a request whose only child with a blacklist term holds a whitelist term too
ReqF ==
    FilterRequest("ip1", << <<"a">> >>, << <<"b">> >>,
        <<RawGrid(<<"g", "1">>, TRUE, <<RawChild(Id("1", "0"), <<"a", "b">>, TRUE),
                                        RawChild(Id("1", "1"), <<"c">>, TRUE)>>)>>)

\* the requests of the calls whose ending is examined
LiveRequests == Requests \cup {ReqF}

\* the content of a 200 answer of the model
ModelContents ==
    { <<>>,
      <<" ">> \o Id("1", "1") \o <<"\n">>,
      Id("1", "0") \o <<"\n">> \o Id("2", "0"),
      Id("7", "7") }

\* the trigger phrases in the text of a failure of the primary request
ErrorMessages ==
    { {}, {"timeout"}, {"circuit breaker"}, {"quota", "timeout"},
      {"quota", "connection", "circuit breaker"} }

\* the answers of the alternative model: 200 or anything else
AltOutcomes == {"ok", "failed", "other_status"}

NoContext ==
    [error_message |-> {}, start |-> 0, calls |-> 0, cb_before |-> CircuitBreakerInit,
     cache_before |-> CacheInit]

\* what an ended call did in handle_ai_failure: whether it entered it, the
\* text of the failure, the strategies entered and whether it returned a
\* result
NoCascade == [ran |-> FALSE, error_message |-> {}, attempts |-> <<>>, some |-> FALSE]

Cascade(error_message, fallback_result) ==
    [ran |-> TRUE, error_message |-> error_message,
     attempts |-> fallback_result.attempts, some |-> fallback_result.some]

NoCall ==
    [ req |-> NoRequest, start |-> 0, ret |-> NoResponse, calls |-> 0, path |-> "none",
      primary |-> "none", cb_before |-> CircuitBreakerInit, cb_after |-> CircuitBreakerInit,
      cascade |-> NoCascade ]

\* the state at import time. OPENAI_HEADERS is set or not; the address ip1
\* may have spent its window but for one request (a request whose grids are
\* no dicts is counted and fails before it reaches cache or breaker)
PipeInit ==
    /\ now = 0
    /\ cb = CircuitBreakerInit
    /\ cbobs = NoObservation
    /\ streak = 0
    /\ fin = <<>>
    /\ fout = <<>>
    /\ fphase = "unused"
    /\ hist = <<>>
    /\ rl \in {RateLimitInit,
               [RateLimitInit EXCEPT !.ip_counts = CountSet(@, "ip1", rate_limit - 1)]}
    /\ cache = CacheInit
    /\ configured \in BOOLEAN
    /\ pc = [p \in Tasks |-> "idle"]
    /\ preq = [p \in Tasks |-> NoRequest]
    /\ pctx = [p \in Tasks |-> NoContext]
    /\ started = 0
    /\ last = NoCall
    /\ prev = NoCall

\* the call of task p ends: it returns ret (or raises it)
CompleteWith(p, req, start, cb_before, cb_after, calls, primary, ret, path, cascade) ==
    /\ pc' = [pc EXCEPT ![p] = "idle"]
    /\ preq' = [preq EXCEPT ![p] = NoRequest]
    /\ pctx' = [pctx EXCEPT ![p] = NoContext]
    /\ prev' = last
    /\ last' = [ req |-> req, start |-> start, ret |-> ret, calls |-> calls, path |-> path,
                 primary |-> primary, cb_before |-> cb_before, cb_after |-> cb_after,
                 cascade |-> cascade ]

\* the call of task p ends without having entered handle_ai_failure
Complete(p, req, start, cb_before, cb_after, calls, primary, ret, path) ==
    CompleteWith(p, req, start, cb_before, cb_after, calls, primary, ret, path, NoCascade)

\* fetch_distracting_chunks up to its first await, for one of these requests
StartOf(p, requests) ==
    /\ pc[p] = "idle"
    /\ started < MaxDecides
    /\ started' = started + 1
    /\ \E request \in requests :
        LET tracked == track_ip_request(rl, request.ip, now) IN
        /\ rl' = tracked.rl
        /\ IF OverLimit(tracked.request_count)
           THEN /\ Complete(p, request, now, cb, cb, 0, "none", ErrorResponse(429),
                            "rate_limited")
                /\ UNCHANGED <<cache, cb, cbobs, streak>>
           ELSE LET cache_key == get_cache_key(request.gridStructure, request.currentUrl,
                                               request.whitelist, request.blacklist)
                    cached_response == get_cached_response(cache, cache_key, now)
                    cleaned_grid == CleanedGrid(request)
                IN  IF cached_response.hit
                    THEN /\ cache' = cached_response.cache
                         /\ Complete(p, request, now, cb, cb, 0, "none",
                                     cached_response.response, "cache")
                         /\ UNCHANGED <<cb, cbobs, streak>>
                    ELSE IF ~configured
                    THEN LET d == KeywordDecision(cleaned_grid, request.blacklist, "no_key")
                         IN  /\ cache' = IF d.path = "error"
                                          THEN AfterRaise(cached_response.cache, cache_key,
                                                          d.response, now)
                                          ELSE cache_response(cached_response.cache, cache_key,
                                                              d.response, now)
                             /\ Complete(p, request, now, cb, cb, 0, "none", d.response,
                                         d.path)
                             /\ UNCHANGED <<cb, cbobs, streak>>
                    ELSE \* call(make_openai_request): func() only creates the
                         \* coroutine, it raises nothing
                         LET r == call(cb, FALSE, now) IN
                         /\ cb' = r.cb
                         /\ cbobs' = Observe(cb, r, now)
                         /\ streak' = NextStreak(streak, r)
                         /\ cache' = cached_response.cache
                         /\ IF r.outcome = "refused"
                            THEN LET fallback_result ==
                                         SimilarCachedResult(BreakerOpenMessage, cleaned_grid,
                                                             request, cached_response.cache)
                                     d == FallbackDecision(fallback_result, cleaned_grid,
                                                           request)
                                 IN  CompleteWith(p, request, now, cb, r.cb, 0, "refused",
                                                  d.response, d.path,
                                                  Cascade(BreakerOpenMessage,
                                                          fallback_result))
                            ELSE /\ pc' = [pc EXCEPT ![p] = "awaiting_primary"]
                                 /\ preq' = [preq EXCEPT ![p] = request]
                                 /\ pctx' = [pctx EXCEPT ![p] =
                                        [error_message |-> {}, start |-> now, calls |-> 1,
                                         cb_before |-> cb, cache_before |-> cache]]
                                 /\ UNCHANGED <<last, prev>>
    /\ UNCHANGED <<now, fvars, configured>>

\* fetch_distracting_chunks up to its first await
Start(p) == StartOf(p, Requests)

FinishByFallback_retry(p, error_message, calls, first) ==
    IF "timeout" \in error_message /\ calls < 3
    THEN /\ pc' = [pc EXCEPT ![p] = "awaiting_primary"]
         /\ pctx' = [pctx EXCEPT ![p].calls = calls + 1]
         /\ UNCHANGED <<preq, last, prev>>
    ELSE LET request == preq[p]
             cleaned_grid == CleanedGrid(request)
             fallback_result ==
                 [SimilarCachedResult(error_message, cleaned_grid, request, cache)
                     EXCEPT !.attempts = first \o @]
             d == FallbackDecision(fallback_result, cleaned_grid, request)
         IN  CompleteWith(p, request, pctx[p].start, pctx[p].cb_before, cb, calls, "failed",
                          d.response, d.path, Cascade(error_message, fallback_result))
\* handle_ai_failure from strategy 2 on, and the rest of the except branch
FinishByFallback(p, error_message, calls, first) ==
    LET request == preq[p]
        cleaned_grid == CleanedGrid(request)
        fallback_result ==
            [SimilarCachedResult(error_message, cleaned_grid, request, cache)
                EXCEPT !.attempts = first \o @]
        d == FallbackDecision(fallback_result, cleaned_grid, request)
    IN  CompleteWith(p, request, pctx[p].start, pctx[p].cb_before, cb, calls, "failed",
                     d.response, d.path, Cascade(error_message, fallback_result))

\* the awaited primary request ends: a 200 answer with a content, a 200
\* answer of another shape, or a failure with its text
PrimaryResponds(p) ==
    /\ pc[p] = "awaiting_primary"
    /\ LET request == preq[p]
           cleaned_grid == CleanedGrid(request)
           cache_key == get_cache_key(request.gridStructure, request.currentUrl,
                                      request.whitelist, request.blacklist)
       IN  \/ \E content \in ModelContents :
                LET d == PrimaryDecision(content, cleaned_grid, request) IN
                /\ cache' = IF d.path = "error"
                             THEN AfterRaise(cache, cache_key, d.response, now)
                             ELSE cache_response(cache, cache_key, d.response, now)
                /\ Complete(p, request, pctx[p].start, pctx[p].cb_before, cb,
                            pctx[p].calls, "ok", d.response, d.path)
           \/ /\ Complete(p, request, pctx[p].start, pctx[p].cb_before, cb,
                          pctx[p].calls, "malformed", ErrorResponse(500), "error")
              /\ cache' = AfterRaise(cache, cache_key, ErrorResponse(500), now)
           \/ \E error_message \in ErrorMessages :
                /\ IF TriesAlternateModel(error_message)
                   THEN /\ pc' = [pc EXCEPT ![p] = "awaiting_alt"]
                        /\ pctx' = [pctx EXCEPT ![p].error_message = error_message,
                                                ![p].calls = @ + 1]
                        /\ UNCHANGED <<preq, last, prev>>
                   ELSE FinishByFallback(p, error_message, pctx[p].calls, <<>>)
                /\ UNCHANGED cache
    /\ UNCHANGED <<now, cbvars, fvars, rl, configured, started>>

\* the awaited request to the alternative model ends
AltResponds(p) ==
    /\ pc[p] = "awaiting_alt"
    /\ \E outcome \in AltOutcomes :
            /\ ~AlternateModelResult(outcome).some
            /\ FinishByFallback(p, pctx[p].error_message, pctx[p].calls,
                                AlternateModelResult(outcome).attempts)
    /\ UNCHANGED <<now, cbvars, fvars, rl, cache, configured, started>>

PipeTick ==
    /\ now + PipeTickStep <= PipeMaxTime
    /\ now' = now + PipeTickStep
    /\ UNCHANGED <<cbvars, fvars, pipevars>>

PipeNext ==
    \/ \E p \in Tasks : Start(p)
    \/ \E p \in Tasks : PrimaryResponds(p)
    \/ \E p \in Tasks : AltResponds(p)
    \/ PipeTick

SpecPipe == PipeInit /\ [][PipeNext]_vars

\* the child ids of a decision, whatever its shape
DecisionIds(ret) ==
    IF ret.kind = "dict" THEN {ret.data[i] : i \in 1..Len(ret.data)}
    ELSE UNION {{ret.items[i].children[j] : j \in 1..Len(ret.items[i].children)} :
                    i \in 1..Len(ret.items)}

(***************************************************************************)
(* C5: in fetch_distracting_chunks every primary request that fails is     *)
(* accounted by the breaker as a failure: once the call has ended,         *)
(* failure_count and total_failures are one more than when it began and    *)
(* last_failure_time is stamped.                                           *)
(***************************************************************************)
C5_FailuresAccounted ==
    last.primary = "failed" =>
        /\ last.cb_after.total_failures = last.cb_before.total_failures + 1
        /\ last.cb_after.failure_count = last.cb_before.failure_count + 1
        /\ last.cb_after.last_failure_time # NoTime

C10_Idempotent ==
    ( /\ prev.path \notin {"none", "rate_limited", "error"}
      /\ last.path \notin {"none", "rate_limited", "error"}
      /\ last.req = prev.req
      /\ last.start - prev.start < max_age ) =>
        /\ last.ret = prev.ret
        /\ prev.calls + last.calls <= 1


\* the step ends a call of fetch_distracting_chunks by task p
Completes(p) == pc'[p] = "idle" /\ (pc[p] # "idle" \/ started' # started)

\* the paths on which a call returns a decision after a cache miss
MissDecisionPaths == {"primary", "empty_net", "no_key", "cascade", "final_fallback"}

(***************************************************************************)
(* C11: every call that returns a decision after a cache miss, a decision  *)
(* of a fallback strategy or of the final keyword fallback included,       *)
(* leaves that decision in the cache under the key of its request: a get   *)
(* on that key right after the call returns it.                            *)
(***************************************************************************)
C11_DecisionStored ==
    [][ \A p \in Tasks :
          (Completes(p) /\ last'.path \in MissDecisionPaths) =>
              LET cache_key == get_cache_key(last'.req.gridStructure, last'.req.currentUrl,
                                             last'.req.whitelist, last'.req.blacklist)
                  got == get_cached_response(cache', cache_key, now')
              IN  got.hit /\ got.response = last'.ret ]_vars


\* every entry of a tier or of the legacy map of c2 is an entry of c1
NoNewOrChangedEntry(c1, c2) ==
    \A k \in 1..Len(Tiers) :
        \A i \in 1..Len(c2[Tiers[k]]) :
            \E j \in 1..Len(c1[Tiers[k]]) : c1[Tiers[k]][j] = c2[Tiers[k]][i]

(***************************************************************************)
(* C12: a call that ends in an error, the rejection by the rate limit or   *)
(* the internal error, leaves no new and no changed entry in a tier or in  *)
(* the legacy map: every entry there after the call was there before it.   *)
(***************************************************************************)
C12_ErrorsNotCached ==
    [][ \A p \in Tasks :
          (Completes(p) /\ last'.ret.kind = "error") =>
              NoNewOrChangedEntry(IF pc[p] = "idle" THEN cache ELSE pctx[p].cache_before,
                                  cache') ]_vars

\* an internal error of a call made while the cache holds a decision
C12_Witness ==
    last.path = "error" /\ last.ret = ErrorResponse(500) /\ Len(cache.responses) > 0


(***************************************************************************)
(* SpecRL: the rate limiter alone. Each step is one admission of           *)
(* fetch_distracting_chunks: track_ip_request and the test of its result.  *)
(* hist counts, apart from rate_limit_data, the requests of each identity  *)
(* since the last reset of the window.                                     *)
(***************************************************************************)
Ips == {"ip1", "ip2"}

\* the counts an identity may have reached in the running window
RLCounts == {0, rate_limit - 1, rate_limit, rate_limit + 1}

\* ip_counts of the identities that made n[ip] > 0 requests
CountsOf(n) == [ip \in {i \in Ips : n[i] > 0} |-> n[ip]]

RLInit ==
    /\ now = 0
    /\ cb = CircuitBreakerInit
    /\ cbobs = NoObservation
    /\ streak = 0
    /\ fin = <<>>
    /\ fout = <<>>
    /\ fphase = "input"
    /\ \E n \in [Ips -> RLCounts] :
        /\ rl = [ip_counts |-> CountsOf(n), last_reset |-> 0]
        /\ hist = [nth |-> n, window_start |-> 0, calls |-> 0]
    /\ cache = <<>>
    /\ configured = FALSE
    /\ pc = <<>>
    /\ preq = <<>>
    /\ pctx = <<>>
    /\ started = 0
    /\ last = <<>>
    /\ prev = <<>>

\* one request of the identity ip_address reaches the admission
RLAdmit ==
    /\ hist.calls < MaxAdmits
    /\ \E ip_address \in Ips :
        LET tracked == track_ip_request(rl, ip_address, now)
            fresh == now - hist.window_start >= rate_window
            nth == IF fresh THEN 1 ELSE hist.nth[ip_address] + 1
        IN  /\ rl' = tracked.rl
            /\ fin' = [data |-> rl, ip_address |-> ip_address, t |-> now]
            /\ fout' = [request_count |-> tracked.request_count,
                        rejected |-> OverLimit(tracked.request_count),
                        nth |-> nth]
            /\ fphase' = "done"
            /\ hist' = [nth |-> [ip \in Ips |-> IF ip = ip_address THEN nth
                                                ELSE IF fresh THEN 0 ELSE hist.nth[ip]],
                        window_start |-> IF fresh THEN now ELSE hist.window_start,
                        calls |-> hist.calls + 1]
    /\ UNCHANGED <<now, cbvars, cache, configured, pc, preq, pctx, started, last, prev>>

RLTick ==
    /\ now + RLTickStep <= RLMaxTime
    /\ now' = now + RLTickStep
    /\ UNCHANGED <<cbvars, fvars, pipevars>>

RLNext == RLAdmit \/ RLTick

SpecRL == RLInit /\ [][RLNext]_vars

(***************************************************************************)
(* C13: within one window the first rate_limit requests of an identity     *)
(* pass the admission and every later one, from request rate_limit + 1     *)
(* on, is rejected; the requests of other identities do not count.         *)
(***************************************************************************)
C13_RejectedAfterLimit ==
    fphase = "done" => (fout.rejected <=> fout.nth > rate_limit)

\* request 3001 of an identity is rejected while the other identity is
\* below the limit
C13_Witness ==
    /\ fphase = "done"
    /\ fout.nth = rate_limit + 1
    /\ fout.rejected
    /\ \E ip \in Ips : ip # fin.ip_address /\ hist.nth[ip] < rate_limit

(***************************************************************************)
(* C14: track_ip_request, when now - last_reset >= 3600, clears the counts *)
(* of all identities and sets last_reset to now before it counts, and so   *)
(* returns 1; otherwise it adds one to the count of the calling identity,  *)
(* returns the new count and leaves the other counts and last_reset.       *)
(***************************************************************************)
C14_TrackEffect ==
    fphase = "done" =>
        IF fin.t - fin.data.last_reset >= rate_window
        THEN /\ rl.last_reset = fin.t
             /\ fout.request_count = 1
             /\ DOMAIN rl.ip_counts = {fin.ip_address}
             /\ rl.ip_counts[fin.ip_address] = 1
        ELSE /\ rl.last_reset = fin.data.last_reset
             /\ fin.ip_address \in DOMAIN rl.ip_counts
             /\ rl.ip_counts[fin.ip_address] =
                    (IF fin.ip_address \in DOMAIN fin.data.ip_counts
                     THEN fin.data.ip_counts[fin.ip_address] ELSE 0) + 1
             /\ fout.request_count = rl.ip_counts[fin.ip_address]
             /\ \A ip \in Ips \ {fin.ip_address} :
                    /\ ip \in DOMAIN rl.ip_counts <=> ip \in DOMAIN fin.data.ip_counts
                    /\ ip \in DOMAIN rl.ip_counts => rl.ip_counts[ip] = fin.data.ip_counts[ip]

\* a call after the window has passed, with counts of both identities to clear
C14_Witness ==
    /\ fphase = "done"
    /\ fin.t - fin.data.last_reset >= rate_window
    /\ DOMAIN fin.data.ip_counts = Ips


(***************************************************************************)
(* C15: a request rejected by the rate limit fails fast: no cache lookup   *)
(* or write, no call of the breaker and no request to a model; of the      *)
(* shared state it changes only the rate-limit counter of its identity,    *)
(* by one.                                                                 *)
(***************************************************************************)
C15_RejectionFailsFast ==
    [][ \A p \in Tasks :
          (Completes(p) /\ last'.path = "rate_limited") =>
              /\ last'.ret = ErrorResponse(429)
              /\ last'.calls = 0
              /\ UNCHANGED <<cache, cb, configured>>
              /\ rl'.last_reset = rl.last_reset =>
                    \A ip \in DOMAIN rl.ip_counts \cup DOMAIN rl'.ip_counts :
                        (IF ip \in DOMAIN rl'.ip_counts THEN rl'.ip_counts[ip] ELSE 0) =
                        (IF ip \in DOMAIN rl.ip_counts THEN rl.ip_counts[ip] ELSE 0)
                            + (IF ip = last'.req.ip THEN 1 ELSE 0) ]_vars

\* a request is rejected although the cache holds the decision of the same
\* request, made through the breaker just before
C15_Witness ==
    /\ last.path = "rate_limited"
    /\ prev.path = "primary"
    /\ last.req = prev.req
    /\ Len(cache.responses) > 0
    /\ cb.total_requests > 0


(***************************************************************************)
(* SpecCache: the cache alone, under cache_response and                    *)
(* get_cached_response of two keys as time passes. fin and fout hold the   *)
(* last operation and what it returned; a stored response is the number    *)
(* of the operation that stored it.                                        *)
(***************************************************************************)
CacheKeys == {"k1", "k2"}

\* access counts a key may have from entries read earlier that have expired
\* and been removed since: access_counts is never cleared
EarlierCounts == {0, warm_from - 1, hot_from - 1}

CacheSpecInit ==
    /\ now = 0
    /\ cb = CircuitBreakerInit
    /\ cbobs = NoObservation
    /\ streak = 0
    /\ fin = <<>>
    /\ fout = <<>>
    /\ fphase = "input"
    /\ hist = [calls |-> 0]
    /\ rl = <<>>
    /\ \E n \in EarlierCounts :
          cache = [CacheInit EXCEPT !.access_counts =
                        IF n = 0 THEN NoCounts ELSE CountSet(NoCounts, "k1", n)]
    /\ configured = FALSE
    /\ pc = <<>>
    /\ preq = <<>>
    /\ pctx = <<>>
    /\ started = 0
    /\ last = <<>>
    /\ prev = <<>>

\* cache_response(cache_key, response)
CachePut ==
    /\ hist.calls < MaxCacheOps
    /\ \E cache_key \in CacheKeys :
        /\ cache' = cache_response(cache, cache_key, hist.calls + 1, now)
        /\ fin' = [op |-> "put", cache_key |-> cache_key, t |-> now, before |-> cache]
        /\ fout' = [hit |-> FALSE, response |-> hist.calls + 1]
    /\ fphase' = "done"
    /\ hist' = [calls |-> hist.calls + 1]
    /\ UNCHANGED <<now, cbvars, rl, configured, pc, preq, pctx, started, last, prev>>

\* get_cached_response(cache_key)
CacheGet ==
    /\ hist.calls < MaxCacheOps
    /\ \E cache_key \in CacheKeys :
        LET got == get_cached_response(cache, cache_key, now) IN
        /\ cache' = got.cache
        /\ fin' = [op |-> "get", cache_key |-> cache_key, t |-> now, before |-> cache]
        /\ fout' = [hit |-> got.hit, response |-> IF got.hit THEN got.response ELSE 0]
    /\ fphase' = "done"
    /\ hist' = [calls |-> hist.calls + 1]
    /\ UNCHANGED <<now, cbvars, rl, configured, pc, preq, pctx, started, last, prev>>

CacheTick ==
    /\ now + CacheTickStep <= CacheMaxTime
    /\ now' = now + CacheTickStep
    /\ UNCHANGED <<cbvars, fvars, pipevars>>

CacheNext == CachePut \/ CacheGet \/ CacheTick

SpecCache == CacheSpecInit /\ [][CacheNext]_vars

\* the entries the map d holds for key k
EntriesOf(d, k) == {d[i].val : i \in {j \in 1..Len(d) : d[j].key = k}}

(***************************************************************************)
(* C16: get_cached_response never returns an entry whose age, now minus    *)
(* its timestamp, is max_age or more; and when it returns absent, the key  *)
(* is afterwards in none of the hot, warm, cold and legacy maps.           *)
(***************************************************************************)
C16_NoStaleEntry ==
    (fphase = "done" /\ fin.op = "get") =>
        /\ fout.hit =>
              \E k \in 1..Len(Tiers) :
                  \E e \in EntriesOf(fin.before[Tiers[k]], fin.cache_key) :
                      e.response = fout.response /\ fin.t - e.timestamp < max_age
        /\ ~fout.hit =>
              \A k \in 1..Len(Tiers) : EntriesOf(cache[Tiers[k]], fin.cache_key) = {}

\* a get of a key whose entry has reached max_age returns absent
C16_Witness ==
    /\ fphase = "done" /\ fin.op = "get" /\ ~fout.hit
    /\ \E k \in 1..Len(Tiers) :
          \E e \in EntriesOf(fin.before[Tiers[k]], fin.cache_key) :
              fin.t - e.timestamp = max_age

\* the tier a put with this access count writes to, as the specification has it
TierOfCount(n) ==
    IF n >= hot_from THEN "hot_cache" ELSE IF n >= warm_from THEN "warm_cache"
    ELSE "cold_cache"

(***************************************************************************)
(* C17: cache_response places the entry in the tier given by the access    *)
(* count of the key at the time of the put: hot from 10, warm from 3 to 9, *)
(* cold below 3; a key never seen has count 0 and goes to cold. No other   *)
(* tier receives the entry.                                                *)
(***************************************************************************)
C17_PutTier ==
    (fphase = "done" /\ fin.op = "put") =>
        LET n == IF fin.cache_key \in DOMAIN fin.before.access_counts
                 THEN fin.before.access_counts[fin.cache_key] ELSE 0
            stored(d) == \E e \in EntriesOf(d, fin.cache_key) :
                            e.response = fout.response /\ e.timestamp = fin.t
        IN  /\ stored(cache[TierOfCount(n)])
            /\ \A tier \in {"hot_cache", "warm_cache", "cold_cache"} \ {TierOfCount(n)} :
                    ~stored(cache[tier])

\* a put of a key read hot_from times goes to hot while cold holds the entry
\* of a key that had never been seen when it was put
C17_Witness ==
    /\ fphase = "done" /\ fin.op = "put"
    /\ fin.cache_key \in DOMAIN fin.before.access_counts
    /\ fin.before.access_counts[fin.cache_key] >= hot_from
    /\ \E e \in EntriesOf(cache.hot_cache, fin.cache_key) : e.timestamp = fin.t
    /\ \E k \in CacheKeys : \E e \in EntriesOf(cache.cold_cache, k) : e.access_count = 0


(***************************************************************************)
(* SpecCap: the cache at its capacity. The keys are numbers, in the order  *)
(* of their first put, and a stored response is the key. The runs start    *)
(* at time CapTickStep from a cache that earlier puts and reads have       *)
(* filled.                                                                 *)
(***************************************************************************)
\* the entry of key k put at time ts, the key not read before
CapEntry(k, ts) ==
    [key |-> k, val |-> [response |-> k, timestamp |-> ts, access_count |-> 0,
                         grid_signature |-> NoSignature]]

\* the number of entries of the tiers and of the legacy map
TotalSize(c) ==
    Len(c.hot_cache) + Len(c.warm_cache) + Len(c.cold_cache) + Len(c.responses)

\* the keys whose put brings the total to max_size + 2 with no eviction yet
HalfKeys == max_size \div 2 + 1

\* the cache after these operations: put of the keys 1 .. HalfKeys \div 2 at
\* time 0, a second put of key 1 and the put of the other keys up to
\* HalfKeys at time CapTickStep; then one read of each of the n_warm keys
\* below the last n_hot keys, and promote_hot_above + 1 reads of each of the
\* last n_hot keys. No put found the total above max_size.
HalfFull(n_warm, n_hot) ==
    LET ts(k) == IF k = 1 \/ k > HalfKeys \div 2 THEN CapTickStep ELSE 0
        n_cold == HalfKeys - n_warm - n_hot
        reads(k) == IF k > HalfKeys - n_hot THEN promote_hot_above + 1
                    ELSE IF k > n_cold THEN 1 ELSE 0
    IN  [ hot_cache  |-> [i \in 1..n_hot |-> CapEntry(n_cold + n_warm + i,
                                                       ts(n_cold + n_warm + i))],
          warm_cache |-> [i \in 1..n_warm |-> CapEntry(n_cold + i, ts(n_cold + i))],
          cold_cache |-> [i \in 1..n_cold |-> CapEntry(i, ts(i))],
          responses  |-> [i \in 1..HalfKeys |-> CapEntry(i, ts(i))],
          access_counts |-> [k \in (n_cold + 1)..HalfKeys |-> reads(k)] ]

\* the cache after the put of the keys 1 .. max_size + 1 at time CapTickStep,
\* none read: every put from HalfKeys + 1 on that found the total above
\* max_size took the evict_cold oldest entries from the cold tier, the last
\* ones emptied it, and the legacy map kept every key
LegacyFull ==
    [ hot_cache  |-> EmptyDict,
      warm_cache |-> EmptyDict,
      cold_cache |-> <<CapEntry(max_size + 1, CapTickStep)>>,
      responses  |-> [i \in 1..(max_size + 1) |-> CapEntry(i, CapTickStep)],
      access_counts |-> NoCounts ]

\* the keys put and read: the first, the oldest, one that outlives one
\* eviction from cold, and one never put
CapKeys == {1, 2, evict_cold + 2, 0}

CapInit ==
    /\ now = CapTickStep
    /\ cb = CircuitBreakerInit
    /\ cbobs = NoObservation
    /\ streak = 0
    /\ fin = <<>>
    /\ fout = <<>>
    /\ fphase = "input"
    /\ hist = [calls |-> 0, evicted |-> {}]
    /\ rl = <<>>
    /\ cache \in {HalfFull(0, 0), HalfFull(evict_warm + 5, evict_hot + 2), LegacyFull}
    /\ configured = FALSE
    /\ pc = <<>>
    /\ preq = <<>>
    /\ pctx = <<>>
    /\ started = 0
    /\ last = <<>>
    /\ prev = <<>>

\* the keys of the entries of the map `before`, not yet older than max_age
\* at time t, that the map `after` has no more
GoneFrom(before, after, t) ==
    { before[i].key : i \in { j \in 1..Len(before) :
          /\ t - before[j].val.timestamp <= max_age
          /\ \A m \in 1..Len(after) : after[m].key # before[j].key } }

\* cache_response(cache_key, response); hist.evicted collects the keys that
\* an eviction has taken from the cold tier and that were not put since
CapPut ==
    /\ hist.calls < MaxCapOps
    /\ \E cache_key \in CapKeys :
        LET after == cache_response(cache, cache_key, cache_key, now) IN
        /\ cache' = after
        /\ fin' = [op |-> "put", cache_key |-> cache_key, t |-> now, before |-> cache,
                   was_evicted |-> cache_key \in hist.evicted]
        /\ fout' = [hit |-> FALSE, response |-> cache_key]
        /\ hist' = [calls |-> hist.calls + 1,
                    evicted |-> (hist.evicted
                                    \cup GoneFrom(cache.cold_cache, after.cold_cache, now))
                                \ {cache_key}]
    /\ fphase' = "done"
    /\ UNCHANGED <<now, cbvars, rl, configured, pc, preq, pctx, started, last, prev>>

\* get_cached_response(cache_key)
CapGet ==
    /\ hist.calls < MaxCapOps
    /\ \E cache_key \in CapKeys :
        LET got == get_cached_response(cache, cache_key, now) IN
        /\ cache' = got.cache
        /\ fin' = [op |-> "get", cache_key |-> cache_key, t |-> now, before |-> cache,
                   was_evicted |-> cache_key \in hist.evicted]
        /\ fout' = [hit |-> got.hit, response |-> IF got.hit THEN got.response ELSE 0]
    /\ hist' = [hist EXCEPT !.calls = @ + 1]
    /\ fphase' = "done"
    /\ UNCHANGED <<now, cbvars, rl, configured, pc, preq, pctx, started, last, prev>>

CapTick ==
    /\ now + CapTickStep <= CapMaxTime
    /\ now' = now + CapTickStep
    /\ UNCHANGED <<cbvars, fvars, pipevars>>

CapNext == CapPut \/ CapGet \/ CapTick

SpecCap == CapInit /\ [][CapNext]_vars


\* the number of entries of the map d not older than max_age at time t
LiveSize(d, t) == Cardinality({ i \in 1..Len(d) : t - d[i].val.timestamp <= max_age })

(***************************************************************************)
(* C18: when the number of entries exceeds max_size at a put, eviction     *)
(* brings it back under the bound: after the put the cache holds at most   *)
(* max_size entries and the one just written.                              *)
(***************************************************************************)
C18_BackUnderCapacity ==
    (fphase = "done" /\ fin.op = "put" /\ TotalSize(fin.before) > max_size) =>
        TotalSize(cache) <= max_size + 1

(***************************************************************************)
(* C19: under capacity pressure the oldest entries of the cold tier are    *)
(* evicted first; an entry of the warm tier is evicted only if the cache   *)
(* is still over capacity after the eviction from cold, and an entry of    *)
(* the hot tier only if it is still over capacity after that from warm.    *)
(***************************************************************************)
C19_EvictionOrder ==
    (fphase = "done" /\ fin.op = "put") =>
        LET b == fin.before
            live == LiveSize(b.hot_cache, fin.t) + LiveSize(b.warm_cache, fin.t)
                        + LiveSize(b.cold_cache, fin.t) + LiveSize(b.responses, fin.t)
            gone_cold == GoneFrom(b.cold_cache, cache.cold_cache, fin.t)
            gone_warm == GoneFrom(b.warm_cache, cache.warm_cache, fin.t)
            gone_hot == GoneFrom(b.hot_cache, cache.hot_cache, fin.t)
        IN  /\ \A i, j \in 1..Len(b.cold_cache) :
                  ( /\ b.cold_cache[i].key \in gone_cold
                    /\ b.cold_cache[j].key \notin gone_cold
                    /\ fin.t - b.cold_cache[j].val.timestamp <= max_age ) =>
                        b.cold_cache[i].val.timestamp <= b.cold_cache[j].val.timestamp
            /\ gone_warm # {} => live - Cardinality(gone_cold) > max_size
            /\ gone_hot # {} =>
                  live - Cardinality(gone_cold) - Cardinality(gone_warm) > max_size

(***************************************************************************)
(* C20: once the cache exceeded its capacity and an entry was evicted from *)
(* the cold tier, a get of the key of that entry returns absent.           *)
(***************************************************************************)
C20_EvictedIsAbsent ==
    (fphase = "done" /\ fin.op = "get" /\ fin.was_evicted) => ~fout.hit


(***************************************************************************)
(* SpecKey: get_cache_key applied to the two requests of fin.              *)
(***************************************************************************)
KeyUrls == {"https://a/", "https://b/"}

\* lists of terms, some of them permutations of one another
KeyLists ==
    { <<>>, << <<"a">>, <<"B">> >>, << <<"B">>, <<"a">> >>,
      << <<"a", "b">>, <<"a">>, <<"B">> >>, << <<"B">>, <<"a", "b">>, <<"a">> >> }

\* grid structures that differ in child text only, in child ids only, in the
\* order of the grids, or in the number of children
KeyGrids ==
    { <<RawGrid(<<"g", "1">>, TRUE, <<RawChild(Id("1", "0"), <<"a">>, TRUE)>>),
        RawGrid(<<"g", "2">>, TRUE, <<RawChild(Id("2", "0"), <<"b">>, TRUE)>>)>>,
      <<RawGrid(<<"g", "1">>, TRUE, <<RawChild(Id("1", "0"), <<"B">>, TRUE)>>),
        RawGrid(<<"g", "2">>, TRUE, <<RawChild(Id("2", "0"), <<"b">>, TRUE)>>)>>,
      <<RawGrid(<<"g", "1">>, TRUE, <<RawChild(Id("1", "1"), <<"a">>, TRUE)>>),
        RawGrid(<<"g", "2">>, TRUE, <<RawChild(Id("2", "0"), <<"b">>, TRUE)>>)>>,
      <<RawGrid(<<"g", "2">>, TRUE, <<RawChild(Id("2", "0"), <<"b">>, TRUE)>>),
        RawGrid(<<"g", "1">>, TRUE, <<RawChild(Id("1", "0"), <<"a">>, TRUE)>>)>>,
      <<RawGrid(<<"g", "1">>, TRUE, <<RawChild(Id("1", "0"), <<"a">>, TRUE),
                                      RawChild(Id("1", "1"), <<"a">>, TRUE)>>),
        RawGrid(<<"g", "2">>, TRUE, <<RawChild(Id("2", "0"), <<"b">>, TRUE)>>)>> }

KeyRequests ==
    { [FilterRequest(ip, wl, bl, grids) EXCEPT !.currentUrl = url] :
        ip \in Ips, wl \in KeyLists, bl \in {<<>>, << <<"b">> >>},
        grids \in KeyGrids, url \in KeyUrls }

\* the first request is one of a few, the second any
KeyInit ==
    /\ now = 0
    /\ cb = CircuitBreakerInit
    /\ cbobs = NoObservation
    /\ streak = 0
    /\ fin \in { <<a, b>> : a \in { r \in KeyRequests :
                                      /\ r.ip = "ip1"
                                      /\ r.currentUrl = "https://a/"
                                      /\ Len(r.whitelist) >= MinKeyTerms },
                            b \in KeyRequests }
    /\ fout = <<>>
    /\ fphase = "input"
    /\ hist = <<>>
    /\ PipeUnused

KeyApply ==
    /\ fphase = "input"
    /\ fout' = [i \in 1..2 |-> get_cache_key(fin[i].gridStructure, fin[i].currentUrl,
                                              fin[i].whitelist, fin[i].blacklist)]
    /\ fphase' = "done"
    /\ UNCHANGED <<now, cbvars, fin, hist, pipevars>>

KeyNext == KeyApply

SpecKey == KeyInit /\ [][KeyNext]_vars

\* the lists s and t hold the same terms the same number of times
IsPermutation(s, t) ==
    /\ Len(s) = Len(t)
    /\ \A i \in 1..Len(s) :
          Cardinality({j \in 1..Len(s) : s[j] = s[i]})
            = Cardinality({j \in 1..Len(t) : t[j] = s[i]})

\* the total of the child counts the grids declare
DeclaredChildren(gs) ==
    LET total[n \in 0..Len(gs.grids)] ==
            IF n = 0 THEN 0 ELSE total[n - 1] + gs.grids[n].totalChildren
    IN  total[Len(gs.grids)]

(***************************************************************************)
(* C21: get_cache_key depends only on the URL, the whitelist and the       *)
(* blacklist as sorted lists, the list of the grid ids in order and the    *)
(* total child count: two requests that agree in these, whatever the       *)
(* order of their lists, their child texts and ids and their callers, get  *)
(* the same key.                                                           *)
(***************************************************************************)
C21_KeyOfFingerprint ==
    fphase = "done" =>
        ( ( /\ fin[1].currentUrl = fin[2].currentUrl
            /\ IsPermutation(fin[1].whitelist, fin[2].whitelist)
            /\ IsPermutation(fin[1].blacklist, fin[2].blacklist)
            /\ Len(fin[1].gridStructure.grids) = Len(fin[2].gridStructure.grids)
            /\ \A g \in 1..Len(fin[1].gridStructure.grids) :
                  fin[1].gridStructure.grids[g].id = fin[2].gridStructure.grids[g].id
            /\ DeclaredChildren(fin[1].gridStructure)
                  = DeclaredChildren(fin[2].gridStructure) )
          => fout[1] = fout[2] )

\* two requests of different callers, a permuted whitelist of three terms
\* and different child texts get one key
C21_Witness ==
    /\ fphase = "done"
    /\ fout[1] = fout[2]
    /\ fin[1].ip # fin[2].ip
    /\ fin[1].whitelist # fin[2].whitelist
    /\ fin[1].gridStructure # fin[2].gridStructure


\* the place of a strategy in the text of handle_ai_failure
StrategyRank(strategy) ==
    CASE strategy = "alternate_model" -> 1
      [] strategy = "cached_similar"  -> 2
      [] strategy = "rule_based"      -> 3

\* the phrases one of which the text of the failure must hold for a strategy
StrategyTrigger(strategy) ==
    CASE strategy = "alternate_model" -> {"rate limit", "quota"}
      [] strategy = "cached_similar"  -> {"timeout", "connection"}
      [] strategy = "rule_based"      -> {"circuit breaker"}

(***************************************************************************)
(* C22: in a call that entered handle_ai_failure the strategies entered    *)
(* follow the order alternate model, similar cached response, rule-based;  *)
(* a strategy is entered only if the text of the failure holds one of its  *)
(* phrases, and then it is entered unless an earlier one returned; a       *)
(* strategy that returns a result is the last one entered, and its result  *)
(* is what the cascade gives.                                              *)
(***************************************************************************)
C22_CascadeOrder ==
    last.cascade.ran =>
        LET a == last.cascade.attempts
            msg == last.cascade.error_message
        IN  /\ \A i, j \in 1..Len(a) :
                  i < j => StrategyRank(a[i].strategy) < StrategyRank(a[j].strategy)
            /\ \A i \in 1..Len(a) :
                  /\ StrategyTrigger(a[i].strategy) \cap msg # {}
                  /\ a[i].returned => i = Len(a)
            /\ \A st \in {"alternate_model", "cached_similar", "rule_based"} :
                  StrategyTrigger(st) \cap msg # {} =>
                      \/ \E i \in 1..Len(a) : a[i].strategy = st
                      \/ \E i \in 1..Len(a) :
                            /\ a[i].returned
                            /\ StrategyRank(a[i].strategy) < StrategyRank(st)
            /\ last.cascade.some <=> (Len(a) > 0 /\ a[Len(a)].returned)
            /\ last.cascade.some <=> last.path = "cascade"
            /\ last.cascade.some =>
                  /\ last.ret.kind = "dict"
                  /\ last.ret.fallback_used = a[Len(a)].strategy

\* a failure whose text triggers all three strategies: all three were
\* entered and the third returned the decision
C22_Witness ==
    /\ last.cascade.ran
    /\ Len(last.cascade.attempts) = 3
    /\ last.cascade.attempts[3].returned
    /\ last.path = "cascade"


(***************************************************************************)
(* C23: an exception raised in the body of a strategy does not leave       *)
(* handle_ai_failure: the strategies after the raising one are still       *)
(* entered when their phrases match, and when no strategy returned the     *)
(* cascade gives no result and the keyword fallback is what decides (the   *)
(* call ends with an error only if the keyword fallback itself raises).    *)
(***************************************************************************)
C23_StrategyErrorsSwallowed ==
    last.cascade.ran =>
        LET a == last.cascade.attempts
            msg == last.cascade.error_message
        IN  /\ \/ last.path \in {"cascade", "final_fallback"}
               \/ /\ last.path = "error"
                  /\ ~last.cascade.some
                  /\ KeywordMatchingRaises(CleanedGrid(last.req), last.req.blacklist)
            /\ \A i \in 1..Len(a) : a[i].raised =>
                  /\ ~a[i].returned
                  /\ \A st \in {"cached_similar", "rule_based"} :
                        ( /\ StrategyRank(st) > StrategyRank(a[i].strategy)
                          /\ StrategyTrigger(st) \cap msg # {}
                          /\ \A j \in 1..Len(a) : ~a[j].returned )
                        => \E j \in (i + 1)..Len(a) : a[j].strategy = st
            /\ (\A i \in 1..Len(a) : ~a[i].returned) =>
                  /\ ~last.cascade.some
                  /\ last.path \in {"final_fallback", "error"}
                  /\ last.path = "final_fallback" => last.ret.kind = "list"

\* the alternative model raised, the later strategies were entered and none
\* returned: the call ended with the keyword fallback's decision
C23_Witness ==
    /\ last.cascade.ran
    /\ Len(last.cascade.attempts) >= 2
    /\ last.cascade.attempts[1].raised
    /\ ~last.cascade.some
    /\ last.path = "final_fallback"
    /\ last.ret.kind = "list"


AltRequests(ended) ==
    Cardinality({i \in 1..Len(ended.cascade.attempts) :
                    ended.cascade.attempts[i].strategy = "alternate_model"})

(***************************************************************************)
(* C27: within one call the primary request is made at most once and       *)
(* handle_ai_failure is entered at most once, each of its strategies at    *)
(* most once: a call that waits for the primary model has made one request *)
(* to a model, one that waits for the alternative model two, and an ended  *)
(* call has made one request to the primary model if it reached it and one *)
(* to the alternative model if it entered that strategy, and no more.      *)
(***************************************************************************)
C27_NoRetry ==
    /\ \A p \in Tasks :
          /\ pc[p] = "awaiting_primary" => pctx[p].calls = 1
          /\ pc[p] = "awaiting_alt" => pctx[p].calls = 2
    /\ last.calls = (IF last.primary \in {"ok", "malformed", "failed"} THEN 1 ELSE 0)
                        + AltRequests(last)
    /\ AltRequests(last) <= 1
    /\ \A i, j \in 1..Len(last.cascade.attempts) :
          last.cascade.attempts[i].strategy = last.cascade.attempts[j].strategy => i = j
    /\ last.cascade.ran <=> last.primary \in {"failed", "refused"}

\* a call that made the primary request once, entered the cascade and made
\* the request to the alternative model once
C27_Witness ==
    /\ last.primary = "failed"
    /\ last.cascade.ran
    /\ last.calls = 2
    /\ AltRequests(last) = 1


(***************************************************************************)
(* SpecPipeLive: the pipeline with the time limits of its two clients.     *)
(* httpx.Timeout(30.0, ...) of make_openai_request and httpx.Timeout(15.0) *)
(* of the alternative request end an await that gets no answer with an     *)
(* exception, so a call that waits for a model does not wait for ever.     *)
(***************************************************************************)
\* no task waits for the primary request for ever (PrimaryResponds is
\* enabled as long as it waits, and a step of it ends the wait), nor for the
\* alternative request (AltResponds)
Timeouts_primaryOnly == \A p \in Tasks : []<>(pc[p] # "awaiting_primary")
Timeouts ==
    \A p \in Tasks : /\ []<>(pc[p] # "awaiting_primary")
                      /\ []<>(pc[p] # "awaiting_alt")

\* a call begins, of the few whose ending is examined
LiveStart(p) ==
    /\ started < MaxLiveDecides
    /\ StartOf(p, LiveRequests)

LiveNext ==
    \/ \E p \in Tasks : LiveStart(p)
    \/ \E p \in Tasks : PrimaryResponds(p)
    \/ \E p \in Tasks : AltResponds(p)
    \/ PipeTick

SpecPipeLive == PipeInit /\ [][LiveNext]_vars /\ Timeouts

(***************************************************************************)
(* C28: every call of fetch_distracting_chunks that has begun ends, with a *)
(* decision or an error, also when a model never answers: the await then   *)
(* ends as a failure with a timeout.                                       *)
(***************************************************************************)
C28_CallTerminates ==
    \A p \in Tasks : (pc[p] # "idle") ~> (pc[p] = "idle" /\ last.ret.kind # "none")

\* a call whose primary request ended as a timeout has ended with a decision
C28_Witness ==
    /\ \A p \in Tasks : pc[p] = "idle"
    /\ last.primary = "failed"
    /\ "timeout" \in last.cascade.error_message
    /\ last.ret.kind \in {"list", "dict"}

(***************************************************************************)
(* SpecConc: handler tasks on the one event loop, and the state they       *)
(* share that is counted: rate_limit_data and openai_circuit_breaker. A    *)
(* task runs until its next await: from the entry of                       *)
(* fetch_distracting_chunks over track_ip_request and the rate check to    *)
(* the return of CircuitBreaker.call (neither has an await inside), then   *)
(* from the end of the awaited request on. hist counts what happened: the  *)
(* requests of each identity since rate_limit_data was last reset and the  *)
(* calls of CircuitBreaker.call.                                           *)
(***************************************************************************)
ConcTasks == {"t1", "t2", "t3"}

ConcInit ==
    /\ now = 0
    /\ cb = CircuitBreakerInit
    /\ cbobs = NoObservation
    /\ streak = 0
    /\ fin = <<>>
    /\ fout = <<>>
    /\ fphase = "unused"
    /\ rl \in {RateLimitInit,
               [RateLimitInit EXCEPT !.ip_counts = CountSet(@, "ip1", rate_limit - 1)]}
    /\ hist = [requests |-> [ip \in Ips |-> CountOf(rl.ip_counts, ip)],
               cb_calls |-> 0, calls |-> 0]
    /\ cache = <<>>
    /\ configured = TRUE
    /\ pc = [p \in ConcTasks |-> "idle"]
    /\ preq = <<>>
    /\ pctx = <<>>
    /\ started = 0
    /\ last = <<>>
    /\ prev = <<>>

\* fetch_distracting_chunks of task p up to its first await or its end: the
\* request is counted, then refused by the rate limit, or answered without
\* the model (from the cache), or CircuitBreaker.call is made
ConcArrive(p) ==
    /\ pc[p] = "idle"
    /\ hist.calls < MaxConcCalls
    /\ \E ip_address \in Ips, answered \in BOOLEAN :
        LET tracked == track_ip_request(rl, ip_address, now)
            since == IF tracked.rl.last_reset # rl.last_reset
                     THEN [ip \in Ips |-> 0] ELSE hist.requests
            counted == [hist EXCEPT !.requests = [since EXCEPT ![ip_address] = @ + 1],
                                    !.calls = @ + 1]
        IN  /\ rl' = tracked.rl
            /\ IF OverLimit(tracked.request_count) \/ answered
               THEN /\ hist' = counted
                    /\ UNCHANGED <<cbvars, pc>>
               ELSE LET r == call(cb, FALSE, now) IN
                    /\ cb' = r.cb
                    /\ cbobs' = Observe(cb, r, now)
                    /\ streak' = NextStreak(streak, r)
                    /\ hist' = [counted EXCEPT !.cb_calls = @ + 1]
                    /\ pc' = [pc EXCEPT ![p] = IF r.outcome = "refused" THEN "idle"
                                                ELSE "awaiting_primary"]
    /\ UNCHANGED <<now, fin, fout, fphase, cache, configured, preq, pctx, started, last, prev>>

\* the awaited request of task p ends and the call runs to its end; it
\* touches neither rate_limit_data nor the breaker
ConcRespond(p) ==
    /\ pc[p] = "awaiting_primary"
    /\ pc' = [pc EXCEPT ![p] = "idle"]
    /\ UNCHANGED <<now, cbvars, fvars, rl, cache, configured, preq, pctx, started, last, prev>>

ConcTick ==
    /\ now + ConcTickStep <= ConcMaxTime
    /\ now' = now + ConcTickStep
    /\ UNCHANGED <<cbvars, fvars, pipevars>>

ConcNext ==
    \/ \E p \in ConcTasks : ConcArrive(p)
    \/ \E p \in ConcTasks : ConcRespond(p)
    \/ ConcTick

SpecConc == ConcInit /\ [][ConcNext]_vars

(***************************************************************************)
(* C29: under every interleaving of the calls no update of the shared      *)
(* counters is lost: the rate count of each identity is the number of its  *)
(* requests since the last reset, and total_requests of the breaker is the *)
(* number of the calls of CircuitBreaker.call.                             *)
(***************************************************************************)
C29_NoLostUpdate ==
    /\ \A ip \in Ips : CountOf(rl.ip_counts, ip) = hist.requests[ip]
    /\ cb.total_requests = hist.cb_calls

\* two calls wait for the model at once, both counted by the breaker, and
\* both identities have been counted since a reset that happened on the way
C29_Witness ==
    /\ Cardinality({p \in ConcTasks : pc[p] = "awaiting_primary"}) >= 2
    /\ cb.total_requests >= 2
    /\ rl.last_reset > 0
    /\ \A ip \in Ips : CountOf(rl.ip_counts, ip) >= 1


(***************************************************************************)
(* C30: when the operation of a call invoked in HALF_OPEN fails,           *)
(* failure_count is one more than before and last_failure_time is the time *)
(* of the call; the state is OPEN if failure_count has reached             *)
(* failure_threshold and HALF_OPEN otherwise, and a call that finds the    *)
(* breaker HALF_OPEN invokes its operation.                                *)
(***************************************************************************)
C30_HalfOpenFailure ==
    /\ (cbobs.state_at_invoke = "HALF_OPEN" /\ cbobs.outcome = "raised") =>
          /\ cb.failure_count = cbobs.pre_count + 1
          /\ cb.last_failure_time = cbobs.at
          /\ cb.failure_count >= failure_threshold => cb.state = "OPEN"
          /\ cb.failure_count < failure_threshold => cb.state = "HALF_OPEN"
    /\ cbobs.pre_state = "HALF_OPEN" => cbobs.invoked = 1

\* a trial call failed after the reset timeout: the breaker is OPEN again
\* with a later last_failure_time
C30_Witness ==
    /\ cbobs.state_at_invoke = "HALF_OPEN"
    /\ cbobs.outcome = "raised"
    /\ cbobs.pre_elapsed >= reset_timeout
    /\ cb.state = "OPEN"
    /\ cb.failure_count = failure_threshold + 1
    /\ cb.last_failure_time = now


\* 1 if the condition holds, else 0
Count(cond) == IF cond THEN 1 ELSE 0

(***************************************************************************)
(* C31: every call of CircuitBreaker.call, refused or not, adds one to     *)
(* total_requests; total_failures grows by one exactly when the operation  *)
(* failed, so it never exceeds total_requests and a refused call adds      *)
(* nothing to it; state_changes[s] grows by one exactly when the call      *)
(* moved the breaker into s from another state.                            *)
(***************************************************************************)
C31_MetricsConsistent ==
    [][ (cb' # cb \/ cbobs' # cbobs) =>
          /\ cb'.total_requests = cb.total_requests + 1
          /\ cb'.total_failures = cb.total_failures + Count(cbobs'.outcome = "raised")
          /\ cb'.total_failures <= cb'.total_requests
          /\ cbobs'.outcome = "refused" =>
                (cb'.state = cb.state /\ cb'.state_changes = cb.state_changes)
          /\ cb'.state_changes["HALF_OPEN"] = cb.state_changes["HALF_OPEN"]
                + Count(cb.state = "OPEN" /\ cbobs'.state_at_invoke = "HALF_OPEN")
          /\ cb'.state_changes["CLOSED"] = cb.state_changes["CLOSED"]
                + Count(cbobs'.state_at_invoke = "HALF_OPEN" /\ cb'.state = "CLOSED")
          /\ cb'.state_changes["OPEN"] = cb.state_changes["OPEN"]
                + Count(cbobs'.state_at_invoke \in {"CLOSED", "HALF_OPEN"}
                            /\ cb'.state = "OPEN")
      ]_vars

\* a refused call after the breaker opened: counted as a request, not as a
\* failure, and no transition counted
C31_Witness ==
    /\ cbobs.outcome = "refused"
    /\ cb.total_requests = failure_threshold + 1
    /\ cb.total_failures = failure_threshold
    /\ cb.state_changes["OPEN"] = 1
    /\ cb.state_changes["HALF_OPEN"] = 0


\* the tier holds an entry of the key that is fresh at time t
FreshIn(c, tier, k, t) == \E e \in EntriesOf(c[tier], k) : t - e.timestamp < max_age

\* hot is warmer than warm, warm than cold
TierRank(tier) ==
    CASE tier = "hot_cache" -> 3 [] tier = "warm_cache" -> 2 [] tier = "cold_cache" -> 1

(***************************************************************************)
(* C32: a get whose first fresh hit is in the cold tier moves the entry to *)
(* warm; one whose first fresh hit is in the warm tier moves it to hot     *)
(* when the access count of the key, this access included, is above 5, and *)
(* leaves it in warm otherwise; a hit in hot or in the legacy map moves    *)
(* nothing. No get and no put takes an entry out of a tier and into a      *)
(* colder one.                                                             *)
(***************************************************************************)
C32_PromotionOnGet ==
    fphase = "done" =>
        LET k == fin.cache_key
            b == fin.before
            t == fin.t
            in_hot == FreshIn(b, "hot_cache", k, t)
            in_warm == ~in_hot /\ FreshIn(b, "warm_cache", k, t)
            in_cold == ~in_hot /\ ~in_warm /\ FreshIn(b, "cold_cache", k, t)
            in_legacy == ~in_hot /\ ~in_warm /\ ~in_cold /\ FreshIn(b, "responses", k, t)
            count == CountOf(cache.access_counts, k)
        IN  /\ (fin.op = "get" /\ in_hot) =>
                  \A tier \in {"hot_cache", "warm_cache", "cold_cache", "responses"} :
                      cache[tier] = b[tier]
            /\ (fin.op = "get" /\ in_warm /\ count > promote_hot_above) =>
                  /\ EntriesOf(cache.hot_cache, k) = EntriesOf(b.warm_cache, k)
                  /\ EntriesOf(cache.warm_cache, k) = {}
            /\ (fin.op = "get" /\ in_warm /\ count <= promote_hot_above) =>
                  /\ cache.warm_cache = b.warm_cache
                  /\ EntriesOf(cache.hot_cache, k) = {}
            /\ (fin.op = "get" /\ in_cold) =>
                  /\ EntriesOf(cache.warm_cache, k) = EntriesOf(b.cold_cache, k)
                  /\ EntriesOf(cache.cold_cache, k) = {}
            /\ (fin.op = "get" /\ in_legacy) =>
                  /\ cache.responses = b.responses
                  /\ \A tier \in {"hot_cache", "warm_cache", "cold_cache"} :
                        EntriesOf(cache[tier], k) = {}
            /\ \A key \in CacheKeys :
               \A from, to \in {"hot_cache", "warm_cache", "cold_cache"} :
                  TierRank(to) < TierRank(from) =>
                      \A e \in EntriesOf(b[from], key) :
                          ~ ( /\ e \notin EntriesOf(cache[from], key)
                              /\ e \in EntriesOf(cache[to], key)
                              /\ e \notin EntriesOf(b[to], key) )

\* a get found the entry in warm and moved it to hot, the count having
\* passed 5
C32_Witness ==
    /\ fphase = "done" /\ fin.op = "get" /\ fout.hit
    /\ EntriesOf(fin.before.warm_cache, fin.cache_key) # {}
    /\ EntriesOf(fin.before.hot_cache, fin.cache_key) = {}
    /\ EntriesOf(cache.hot_cache, fin.cache_key) # {}
    /\ CountOf(cache.access_counts, fin.cache_key) = promote_hot_above + 1


\* the maps in the order in which get_cached_response reads them
LookupOrder == <<"hot_cache", "warm_cache", "cold_cache", "responses">>

\* the index in LookupOrder of the first map that holds an entry of the key
\* fresh at time t; 0 if none does
FirstFresh(c, k, t) ==
    IF \E i \in 1..Len(LookupOrder) : FreshIn(c, LookupOrder[i], k, t)
    THEN CHOOSE i \in 1..Len(LookupOrder) :
            /\ FreshIn(c, LookupOrder[i], k, t)
            /\ \A j \in 1..(i - 1) : ~FreshIn(c, LookupOrder[j], k, t)
    ELSE 0

(***************************************************************************)
(* C33: a get reads hot, warm, cold and the legacy map in this order and   *)
(* answers with the first fresh entry it finds; that hit adds exactly one  *)
(* to the access count of its key. A miss, a put, and the expiry and the   *)
(* eviction that a get or a put carries out leave every access count as it *)
(* was: no count ever decreases, and a count stays when the entry of its   *)
(* key is removed.                                                         *)
(***************************************************************************)
C33_AccessCounts ==
    fphase = "done" =>
        LET k == fin.cache_key
            b == fin.before
            first == FirstFresh(b, k, fin.t)
            counted == fin.op = "get" /\ first # 0
        IN  /\ fin.op = "get" => (fout.hit <=> first # 0)
            /\ counted =>
                  /\ \E e \in EntriesOf(b[LookupOrder[first]], k) : fout.response = e.response
                  /\ CountOf(cache.access_counts, k) = CountOf(b.access_counts, k) + 1
            /\ ~counted => CountOf(cache.access_counts, k) = CountOf(b.access_counts, k)
            /\ \A key \in (DOMAIN b.access_counts \cup DOMAIN cache.access_counts) \ {k} :
                  CountOf(cache.access_counts, key) = CountOf(b.access_counts, key)

\* a put evicted entries that had not expired, and the key read before it
\* kept its count although none of the tiers holds it any more
C33_Witness ==
    /\ fphase = "done" /\ fin.op = "put"
    /\ GoneFrom(fin.before.cold_cache, cache.cold_cache, fin.t) # {}
    /\ \E key \in DOMAIN cache.access_counts :
          /\ cache.access_counts[key] > 0
          /\ \A tier \in {"hot_cache", "warm_cache", "cold_cache"} :
                EntriesOf(cache[tier], key) = {}


\* the call before the last one left its decision in the cache, where it
\* still is, and the grid it was stored for is similar enough to the grid of
\* the last call
SimilarEntryCached ==
    /\ prev.path = "primary"
    /\ LET cache_key == get_cache_key(prev.req.gridStructure, prev.req.currentUrl,
                                      prev.req.whitelist, prev.req.blacklist)
       IN  \E tier \in {"hot_cache", "warm_cache", "cold_cache", "responses"} :
               \E e \in EntriesOf(cache[tier], cache_key) : e.response = prev.ret
    /\ SimilarEnough(create_grid_signature(CleanedGrid(last.req)),
                     create_grid_signature(CleanedGrid(prev.req)))

C35_AlternateModelAnswer ==
    ( /\ last.cascade.ran
      /\ \E i \in 1..Len(last.cascade.attempts) :
            /\ last.cascade.attempts[i].strategy = "alternate_model"
            /\ last.cascade.attempts[i].answer = "ok" )
    => /\ last.cascade.some
       /\ last.path = "cascade"
       /\ last.ret.fallback_used = "gpt-3.5-turbo"
       /\ Len(last.cascade.attempts) = 1


(***************************************************************************)
(* SpecTier: handler tasks on the one event loop and the cache they share. *)
(* A task runs from the entry of fetch_distracting_chunks to the return of *)
(* a cached decision or to the await of the model, and from the answer of  *)
(* the model to its end: get_cached_response and cache_response have no    *)
(* await inside, the request to the model between them is one. preq holds  *)
(* the cache key of the call in progress of each task.                     *)
(***************************************************************************)
TierInit ==
    /\ now = 0
    /\ cb = CircuitBreakerInit
    /\ cbobs = NoObservation
    /\ streak = 0
    /\ fin = <<>>
    /\ fout = <<>>
    /\ fphase = "unused"
    /\ rl = <<>>
    /\ hist = [calls |-> 0]
    /\ cache = CacheInit
    /\ configured = TRUE
    /\ pc = [p \in ConcTasks |-> "idle"]
    /\ preq = [p \in ConcTasks |-> ""]
    /\ pctx = <<>>
    /\ started = 0
    /\ last = <<>>
    /\ prev = <<>>

\* fetch_distracting_chunks of task p from the cache lookup to the return of
\* the cached decision or to the await of the model
TierArrive(p) ==
    /\ pc[p] = "idle"
    /\ hist.calls < MaxTierCalls
    /\ \E cache_key \in CacheKeys :
        LET cached_response == get_cached_response(cache, cache_key, now) IN
        /\ cache' = cached_response.cache
        /\ IF cached_response.hit
           THEN UNCHANGED <<pc, preq>>
           ELSE /\ pc' = [pc EXCEPT ![p] = "awaiting_primary"]
                /\ preq' = [preq EXCEPT ![p] = cache_key]
    /\ hist' = [calls |-> hist.calls + 1]
    /\ UNCHANGED <<now, cbvars, fin, fout, fphase, rl, configured, pctx, started, last, prev>>

\* the model answers the call of task p, which stores its decision and ends
TierRespond(p) ==
    /\ pc[p] = "awaiting_primary"
    /\ cache' = cache_response(cache, preq[p], hist.calls, now)
    /\ pc' = [pc EXCEPT ![p] = "idle"]
    /\ preq' = [preq EXCEPT ![p] = ""]
    /\ UNCHANGED <<now, cbvars, fvars, rl, configured, pctx, started, last, prev>>

\* the request to the model fails: the call ends by the except branch, which
\* stores nothing
TierFail(p) ==
    /\ pc[p] = "awaiting_primary"
    /\ pc' = [pc EXCEPT ![p] = "idle"]
    /\ preq' = [preq EXCEPT ![p] = ""]
    /\ UNCHANGED <<now, cbvars, fvars, rl, cache, configured, pctx, started, last, prev>>

TierTick ==
    /\ now + TierTickStep <= TierMaxTime
    /\ now' = now + TierTickStep
    /\ UNCHANGED <<cbvars, fvars, pipevars>>

TierNext ==
    \/ \E p \in ConcTasks : TierArrive(p)
    \/ \E p \in ConcTasks : TierRespond(p)
    \/ \E p \in ConcTasks : TierFail(p)
    \/ TierTick

SpecTier == TierInit /\ [][TierNext]_vars

(***************************************************************************)
(* C36: under every interleaving of concurrent calls, whose gets and puts  *)
(* on one key are separated by the await of the model, a cache key is in   *)
(* at most one of the hot, warm and cold tiers at any time.                *)
(***************************************************************************)
C36_OneTierPerKey ==
    \A k \in CacheKeys :
        Cardinality({tier \in {"hot_cache", "warm_cache", "cold_cache"} :
                        EntriesOf(cache[tier], k) # {}}) <= 1


(***************************************************************************)
(* C37: every key that has an entry in the hot, warm or cold tier has an   *)
(* entry in the legacy map too, whose timestamp is not older than that of  *)
(* the tier entry; and the eviction for capacity takes entries from the    *)
(* tiers only: an entry of the legacy map that has not reached max_age     *)
(* when a get or a put is made is still there after it.                    *)
(***************************************************************************)
C37_LegacyHoldsTiers ==
    LET legacy == { <<cache.responses[i].key, cache.responses[i].val.timestamp>> :
                        i \in 1..Len(cache.responses) }
        stamps == { cache.responses[i].val.timestamp : i \in 1..Len(cache.responses) }
        keys == { cache.responses[i].key : i \in 1..Len(cache.responses) }
    IN  /\ \A tier \in {"hot_cache", "warm_cache", "cold_cache"} :
           \A i \in 1..Len(cache[tier]) :
              \E ts \in stamps :
                  /\ ts >= cache[tier][i].val.timestamp
                  /\ <<cache[tier][i].key, ts>> \in legacy
        /\ fphase = "done" =>
              \A i \in 1..Len(fin.before.responses) :
                  fin.t - fin.before.responses[i].val.timestamp < max_age =>
                      fin.before.responses[i].key \in keys

\* a put evicted from the cold tier a key that had not expired, and the
\* legacy map still holds that key
C37_Witness ==
    /\ fphase = "done" /\ fin.op = "put"
    /\ \E k \in GoneFrom(fin.before.cold_cache, cache.cold_cache, fin.t) :
          /\ k # fin.cache_key
          /\ EntriesOf(cache.responses, k) # {}
          /\ \A tier \in {"hot_cache", "warm_cache", "cold_cache"} :
                EntriesOf(cache[tier], k) = {}


(***************************************************************************)
(* C38: whenever the breaker is OPEN or HALF_OPEN, failure_count is at     *)
(* least failure_threshold and last_failure_time is set; this holds after  *)
(* every call and at the moment a trial operation is invoked in HALF_OPEN. *)
(* Hence a trial operation that fails in HALF_OPEN always leaves the       *)
(* breaker OPEN.                                                           *)
(***************************************************************************)
C38_OpenMeansThreshold ==
    /\ cb.state \in {"OPEN", "HALF_OPEN"} =>
          /\ cb.failure_count >= failure_threshold
          /\ cb.last_failure_time # NoTime
    /\ cbobs.state_at_invoke = "HALF_OPEN" =>
          /\ cbobs.pre_state = "OPEN"
          /\ cbobs.pre_count >= failure_threshold
          /\ cbobs.pre_elapsed # NoTime
    /\ (cbobs.state_at_invoke = "HALF_OPEN" /\ cbobs.outcome = "raised") => cb.state = "OPEN"

\* the breaker opened at the threshold and its first trial failed: it went
\* from OPEN over HALF_OPEN to OPEN again
C38_Witness ==
    /\ cbobs.state_at_invoke = "HALF_OPEN"
    /\ cbobs.outcome = "raised"
    /\ cbobs.pre_count = failure_threshold
    /\ cb.state = "OPEN"
    /\ cb.state_changes["HALF_OPEN"] = 1
    /\ cb.state_changes["OPEN"] = 2


\* the children that apply_rule_based_filtering hides for the last call
LastRuleBased ==
    apply_rule_based_filtering(CleanedGrid(last.req), last.req.whitelist, last.req.blacklist)

(***************************************************************************)
(* C39: a call ends with a rule-based result of handle_ai_failure only if  *)
(* the rule-based filter hides at least one child, and the result then     *)
(* lists those children. When strategy 3 is entered and the filter finds   *)
(* nothing, handle_ai_failure returns no result and the call ends by the   *)
(* final keyword fallback over the blacklist.                              *)
(***************************************************************************)
C39_EmptyRuleBasedFallsThrough ==
    /\ last.ret.fallback_used = "rule_based" =>
          /\ Len(last.ret.data) >= 1
          /\ last.ret.data = LastRuleBased
          /\ last.path = "cascade"
    /\ \A i \in 1..Len(last.cascade.attempts) :
          last.cascade.attempts[i].strategy = "rule_based" =>
              /\ last.cascade.attempts[i].returned <=> Len(LastRuleBased) >= 1
              /\ last.cascade.attempts[i].returned => last.ret.fallback_used = "rule_based"
              /\ ~last.cascade.attempts[i].returned =>
                    /\ ~last.cascade.some
                    /\ last.path \in {"final_fallback", "error"}
                    /\ last.ret = KeywordDecision(CleanedGrid(last.req), last.req.blacklist,
                                                  "final_fallback").response

\* strategy 3 was entered for a request whose child with the blacklist term
\* holds a whitelist term too: no result, and the keyword fallback hid the
\* child
C39_Witness ==
    /\ \E i \in 1..Len(last.cascade.attempts) :
          /\ last.cascade.attempts[i].strategy = "rule_based"
          /\ ~last.cascade.attempts[i].returned
    /\ Len(last.req.whitelist) > 0
    /\ Len(LastRuleBased) = 0
    /\ last.path = "final_fallback"
    /\ last.ret.kind = "list"
    /\ Len(last.ret.items) >= 1

====
